---- MODULE Spec2Model ----
(***************************************************************************)
(* State-machine model of the MCQ exam platform server: the sql.js store   *)
(* (src/database/db.js), the candidate exam flow (src/routes/exam.js), the *)
(* operator API (src/routes/api.js), the operator login with its rate      *)
(* limiter (src/server.js) and the static API (src/js/api.js).  Every HTTP *)
(* handler is one action; requests are handled one at a time (the handlers *)
(* and the store helpers are synchronous).                                 *)
(***************************************************************************)
EXTENDS Integers, Sequences, FiniteSets, TLC

\* ------------------------------------------------------------------ bounds
MaxExams == 2
MaxQuestions == 1
MaxCandidates == 2
MaxTime == 1
\* the last minute the clock reaches while logins are tried
MaxLoginTime == 15
\* the credential checks POST /login makes in all
MaxChecks == 7

\* ------------------------------------------------------- input value sets
\* SQL NULL / JS null for text columns.
NULL == "NULL"
\* exam_code values as typed by operator or candidate (mixed case).
CodeInputs == {"q1", "Q1"}
\* the email field of POST /exam/start: addresses in mixed case, a string
\* that is no address, and an absent field.
EmailInputs == {"a@x.io", "A@x.io", "b@x.io", "ax.io", NULL}
\* two spellings of one address
SameKeyEmails == {"a@x.io", "A@x.io"}
\* (correct_option, marks) of a question as typed by the operator
QuestionInputs == {<<"a", 1>>, <<"B", 2>>}
\* selectedOption of POST /exam/answer: absent, lower or upper case letter.
OptionInputs == {NULL, "a", "B"}
\* negative_marking of an exam: disabled or one mark per wrong answer
NegativeMarkingInputs == {0, 1}
\* the four result_mode values of the operator UI
ResultModes == {"private", "public", "after_publish", "admin_only"}
\* result_mode values an operator request may carry: the four modes, an
\* unrecognised string and an absent field.
ModeInputs == ResultModes \cup {"hidden", NULL}
Flags == {0, 1}
Clients == {1, 2}
\* req.ip of the login requests
LoginIPs == {"10.0.0.1", "10.0.0.2"}
\* username and password of POST /login: the default account's and wrong ones
UsernameInputs == {"admin", "root"}
PasswordInputs == {"admin123", "guess"}
\* req.body.name of POST /exam/start: the name each client types, never empty
NameOf(client) == IF client = 1 THEN "Ann" ELSE "Ben"

\* ----------------------------------------------------------- conversions
\* String.prototype.toUpperCase on the strings of the input sets.
ToUpperCase(s) ==
    CASE s = "q1" -> "Q1"
      [] s = "q2" -> "Q2"
      [] s = "a" -> "A"
      [] s = "b" -> "B"
      [] OTHER -> s

\* email.trim().toLowerCase() on the strings of the input sets.
ToLowerCase(s) ==
    CASE s = "A@x.io" -> "a@x.io"
      [] OTHER -> s

\* /^[^\s@]+@[^\s@]+\.[^\s@]+$/.test(s) on the strings of the input sets.
EmailRegexTest(s) == s \in {"a@x.io", "A@x.io", "b@x.io"}

\* A nullable number column: <<>> is NULL, <<v>> is the value v.
None == <<>>
Some(v) == <<v>>

\* Math.max(0, x)
Max0(x) == IF x > 0 THEN x ELSE 0

\* variant of the token: every session is given the same one
NewTokenRepeated(n) == 100 + 1

\* uuidv4(): a token no other row holds; the n-th token issued.
NewToken(n) == 100 + n

RECURSIVE SumMarksObtained(_)
\* SUM(marks_obtained) over a set of response rows.
SumMarksObtained(S) ==
    IF S = {} THEN 0
    ELSE LET r == CHOOSE y \in S : TRUE
         IN r.marks_obtained + SumMarksObtained(S \ {r})

\* ---------------------------------------------------------------- state
VARIABLES
    exams,          \* table exams: id -> row
    lastExamId,     \* AUTOINCREMENT sequence of exams
    questions,      \* table questions: id -> row
    lastQuestionId, \* AUTOINCREMENT sequence of questions
    candidates,     \* table candidates: id -> row
    lastCandidateId,\* AUTOINCREMENT sequence of candidates
    responses,      \* table responses: set of rows (the rowid is never read)
    session,        \* express-session store: client -> req.session.candidateId
    now,            \* the clock read by datetime('now')
    res,            \* the reply sent to the request handled last
    sql,            \* the statement routes/exam.js passed to db.run for that
                    \* request ("" when it ran none)
    pending,        \* client -> its request whose handler is between two
                    \* store calls: the call it makes next and the values it
                    \* holds in local variables
    loginAttempts,  \* the Map loginAttempts of server.js: ip -> timestamps
    credentialChecks \* ip -> the credential checks POST /login made for it,
                    \* in order: when, and whether the credentials matched

vars == <<exams, lastExamId, questions, lastQuestionId, candidates,
          lastCandidateId, responses, session, now, res, sql, pending,
          loginAttempts, credentialChecks>>

loginState == <<loginAttempts, credentialChecks>>

tables == <<exams, lastExamId, questions, lastQuestionId, candidates,
            lastCandidateId, responses>>

Init ==
    /\ exams = <<>>
    /\ lastExamId = 0
    /\ questions = <<>>
    /\ lastQuestionId = 0
    /\ candidates = <<>>
    /\ lastCandidateId = 0
    /\ responses = {}
    /\ session = [c \in Clients |-> 0]
    /\ now = 0
    /\ res = [route |-> "none", status |-> 0]
    /\ pending = [c \in Clients |-> [route |-> "none", pc |-> "idle"]]
    /\ sql = ""
    /\ loginAttempts = <<>>
    /\ credentialChecks = [ip \in LoginIPs |-> <<>>]

\* ------------------------------------------------------------- queries
\* SELECT * FROM exams WHERE exam_code = ?
ExamIdsByCode(code) == {e \in DOMAIN exams : exams[e].exam_code = code}

\* SELECT * FROM questions WHERE exam_id = ?
QuestionsOfExam(e) == {q \in DOMAIN questions : questions[q].exam_id = e}

RECURSIVE SumMarks(_)
\* SELECT SUM(marks) FROM questions over a set of question ids; 0 for none
\* (the "|| 0" of the caller).
SumMarks(Q) ==
    IF Q = {} THEN 0
    ELSE LET q == CHOOSE y \in Q : TRUE
         IN questions[q].marks + SumMarks(Q \ {q})

\* SELECT * FROM candidates WHERE exam_id = ? AND email = ? AND is_submitted = ?
CandidatesFor(e, email, submitted) ==
    {c \in DOMAIN candidates : /\ candidates[c].exam_id = e
                               /\ candidates[c].email = email
                               /\ candidates[c].is_submitted = submitted}

\* SELECT * FROM responses WHERE candidate_id = ?
ResponsesOf(c) == {r \in responses : r.candidate_id = c}

\* db.get returns the first row of the result: the one with the least rowid.
FirstId(S) == CHOOSE x \in S : \A y \in S : x <= y

\* Removing rows of a table kept as a function id -> row.
Without(table, ids) == [i \in DOMAIN table \ ids |-> table[i]]

\* Adding a row under a new id.
WithRow(table, id, row) ==
    [i \in DOMAIN table \cup {id} |-> IF i = id THEN row ELSE table[i]]

\* the clock
Tick ==
    /\ now < MaxTime
    /\ now' = now + 1
    /\ UNCHANGED <<tables, session, res, sql, pending, loginState>>

\* ------------------------------------------------------ operator: exams
\* duration_minutes is a number of minutes; 0 stands for a request that
\* carries none (or carries 0): duration_minutes || 30 on create, and a
\* stored NULL multiplies as 0 like a stored 0.
\* POST /api/exams
CreateExam(code, duration, neg, mode, prevent) ==
    LET ucode == ToUpperCase(code)
        row == [exam_code |-> ucode,
                duration_minutes |-> IF duration = 0 THEN 30 ELSE duration,
                negative_marking |-> neg,
                result_mode |-> IF mode = NULL THEN "admin_only" ELSE mode,
                prevent_duplicate_attempts |-> prevent,
                is_active |-> 1,
                results_published |-> 0]
    IN /\ sql' = ""
       /\ IF ExamIdsByCode(ucode) # {}
          THEN \* UNIQUE constraint on exam_code
               /\ res' = [route |-> "api", status |-> 400, success |-> FALSE,
                          message |-> "Exam code already exists"]
               /\ UNCHANGED <<tables, session, now, pending, loginState>>
          ELSE /\ lastExamId < MaxExams
               /\ exams' = WithRow(exams, lastExamId + 1, row)
               /\ lastExamId' = lastExamId + 1
               /\ res' = [route |-> "api", status |-> 200, success |-> TRUE,
                          id |-> lastExamId + 1]
               /\ UNCHANGED <<questions, lastQuestionId, candidates, lastCandidateId,
                              responses, session, now, pending, loginState>>

\* variant of the exam update: exam_code without the UNIQUE constraint
UpdateExamAnyCode(id, code, duration, neg, mode, prevent, active) ==
    /\ sql' = ""
    /\ exams' = [e \in DOMAIN exams |->
                    IF e = id
                    THEN [exams[e] EXCEPT
                            !.exam_code = ToUpperCase(code),
                            !.duration_minutes = duration,
                            !.negative_marking = neg,
                            !.result_mode = mode,
                            !.prevent_duplicate_attempts = prevent,
                            !.is_active = active]
                    ELSE exams[e]]
    /\ res' = [route |-> "api", status |-> 200, success |-> TRUE]
    /\ UNCHANGED <<lastExamId, questions, lastQuestionId, candidates,
                   lastCandidateId, responses, session, now, pending, loginState>>

\* PUT /api/exams/:id
UpdateExam(id, code, duration, neg, mode, prevent, active) ==
    LET ucode == ToUpperCase(code)
    IN /\ sql' = ""
       /\ IF ExamIdsByCode(ucode) \ {id} # {} /\ id \in DOMAIN exams
          THEN \* UNIQUE constraint on exam_code: the statement throws
               /\ res' = [route |-> "api", status |-> 500, success |-> FALSE,
                          message |-> "UNIQUE constraint failed"]
               /\ UNCHANGED <<tables, session, now, pending, loginState>>
          ELSE /\ exams' = [e \in DOMAIN exams |->
                              IF e = id
                              THEN [exams[e] EXCEPT
                                      !.exam_code = ucode,
                                      !.duration_minutes = duration,
                                      !.negative_marking = neg,
                                      !.result_mode = mode,
                                      !.prevent_duplicate_attempts = prevent,
                                      !.is_active = active]
                              ELSE exams[e]]
               /\ res' = [route |-> "api", status |-> 200, success |-> TRUE]
               /\ UNCHANGED <<lastExamId, questions, lastQuestionId, candidates,
                              lastCandidateId, responses, session, now, pending, loginState>>

\* DELETE /api/exams/:id
DeleteExam(id) ==
    /\ sql' = ""
    /\ responses' = {r \in responses : r.question_id \notin QuestionsOfExam(id)}
    /\ questions' = Without(questions, QuestionsOfExam(id))
    /\ candidates' = Without(candidates,
                             {c \in DOMAIN candidates : candidates[c].exam_id = id})
    /\ exams' = Without(exams, {id})
    /\ res' = [route |-> "api", status |-> 200, success |-> TRUE]
    /\ UNCHANGED <<lastExamId, lastQuestionId, lastCandidateId,
                   session, now, pending, loginState>>

\* POST /api/exams/:id/toggle-active
ToggleActive(id) ==
    /\ sql' = ""
    /\ IF id \in DOMAIN exams
       THEN /\ exams' = [exams EXCEPT ![id].is_active =
                            IF exams[id].is_active # 0 THEN 0 ELSE 1]
            /\ res' = [route |-> "api", status |-> 200, success |-> TRUE,
                       is_active |-> (exams[id].is_active = 0)]
       ELSE /\ res' = [route |-> "api", status |-> 404, success |-> FALSE,
                       message |-> "Exam not found"]
            /\ UNCHANGED exams
    /\ UNCHANGED <<lastExamId, questions, lastQuestionId, candidates, lastCandidateId,
                   responses, session, now, pending, loginState>>

\* UPDATE exams SET results_published = ? WHERE id = ?
SetResultsPublished(id, v) ==
    [e \in DOMAIN exams |->
        IF e = id THEN [exams[e] EXCEPT !.results_published = v] ELSE exams[e]]

\* variant of publish-results: the scores of the exam's submitted sessions
\* are recomputed from their response rows
PublishResultsRescoring(id) ==
    /\ sql' = ""
    /\ exams' = SetResultsPublished(id, 1)
    /\ candidates' = [c \in DOMAIN candidates |->
                         IF candidates[c].exam_id = id /\ candidates[c].is_submitted = 1
                         THEN [candidates[c] EXCEPT !.score =
                                  <<SumMarksObtained(
                                      {r \in responses : r.candidate_id = c})>>]
                         ELSE candidates[c]]
    /\ res' = [route |-> "api", status |-> 200, success |-> TRUE]
    /\ UNCHANGED <<lastExamId, questions, lastQuestionId, lastCandidateId,
                   responses, session, now, pending, loginState>>

\* POST /api/exams/:id/publish-results
PublishResults(id) ==
    /\ sql' = ""
    /\ exams' = SetResultsPublished(id, 1)
    /\ res' = [route |-> "api", status |-> 200, success |-> TRUE]
    /\ UNCHANGED <<lastExamId, questions, lastQuestionId, candidates, lastCandidateId,
                   responses, session, now, pending, loginState>>

\* POST /api/exams/:id/unpublish-results
UnpublishResults(id) ==
    /\ sql' = ""
    /\ exams' = SetResultsPublished(id, 0)
    /\ res' = [route |-> "api", status |-> 200, success |-> TRUE]
    /\ UNCHANGED <<lastExamId, questions, lastQuestionId, candidates, lastCandidateId,
                   responses, session, now, pending, loginState>>

\* -------------------------------------------------- operator: questions
\* SELECT MAX(question_order) ... ; (max_order || 0) + 1
NextOrder(examId) ==
    LET Q == QuestionsOfExam(examId)
    IN IF Q = {} THEN 1
       ELSE (CHOOSE m \in {questions[q].question_order : q \in Q} :
                \A q \in Q : questions[q].question_order <= m) + 1

\* POST /api/exams/:examId/questions
AddQuestion(examId, correct, marks) ==
    /\ lastQuestionId < MaxQuestions
    /\ sql' = ""
    /\ questions' = WithRow(questions, lastQuestionId + 1,
                            [exam_id |-> examId,
                             correct_option |-> ToUpperCase(correct),
                             marks |-> IF marks = 0 THEN 1 ELSE marks,
                             question_order |-> NextOrder(examId)])
    /\ lastQuestionId' = lastQuestionId + 1
    /\ res' = [route |-> "api", status |-> 200, success |-> TRUE,
               id |-> lastQuestionId + 1]
    /\ UNCHANGED <<exams, lastExamId, candidates, lastCandidateId, responses,
                   session, now, pending, loginState>>

\* variant of the question update: total_marks of the exam's sessions follows
\* the new marks
UpdateQuestionRetotalling(id, correct, marks) ==
    /\ sql' = ""
    /\ questions' = [q \in DOMAIN questions |->
                        IF q = id
                        THEN [questions[q] EXCEPT
                                !.correct_option = ToUpperCase(correct),
                                !.marks = marks]
                        ELSE questions[q]]
    /\ candidates' = [c \in DOMAIN candidates |->
                         IF /\ id \in DOMAIN questions
                            /\ candidates[c].exam_id = questions[id].exam_id
                         THEN [candidates[c] EXCEPT !.total_marks =
                                  SumMarks(QuestionsOfExam(questions[id].exam_id))
                                  - questions[id].marks + marks]
                         ELSE candidates[c]]
    /\ res' = [route |-> "api", status |-> 200, success |-> TRUE]
    /\ UNCHANGED <<exams, lastExamId, lastQuestionId, lastCandidateId,
                   responses, session, now, pending, loginState>>

\* variant of the question update: the recorded answers to the question are
\* graded again with the new correct option and marks
UpdateQuestionRegrading(id, correct, marks) ==
    /\ sql' = ""
    /\ questions' = [q \in DOMAIN questions |->
                        IF q = id
                        THEN [questions[q] EXCEPT
                                !.correct_option = ToUpperCase(correct),
                                !.marks = marks]
                        ELSE questions[q]]
    /\ responses' = {IF r.question_id = id /\ id \in DOMAIN questions
                     THEN [r EXCEPT
                             !.is_correct =
                                IF ToUpperCase(r.selected_option) = ToUpperCase(correct)
                                THEN 1 ELSE 0,
                             !.marks_obtained =
                                IF ToUpperCase(r.selected_option) = ToUpperCase(correct)
                                THEN marks ELSE 0]
                     ELSE r : r \in responses}
    /\ res' = [route |-> "api", status |-> 200, success |-> TRUE]
    /\ UNCHANGED <<exams, lastExamId, lastQuestionId, candidates, lastCandidateId,
                   session, now, pending, loginState>>

\* PUT /api/questions/:id
UpdateQuestion(id, correct, marks) ==
    /\ sql' = ""
    /\ questions' = [q \in DOMAIN questions |->
                        IF q = id
                        THEN [questions[q] EXCEPT
                                !.correct_option = ToUpperCase(correct),
                                !.marks = marks]
                        ELSE questions[q]]
    /\ res' = [route |-> "api", status |-> 200, success |-> TRUE]
    /\ UNCHANGED <<exams, lastExamId, lastQuestionId, candidates, lastCandidateId,
                   responses, session, now, pending, loginState>>

\* variant of the question deletion: submitted sessions are scored again
\* from the rows that remain
DeleteQuestionRescoring(id) ==
    /\ sql' = ""
    /\ responses' = {r \in responses : r.question_id # id}
    /\ questions' = Without(questions, {id})
    /\ candidates' = [c \in DOMAIN candidates |->
                         IF candidates[c].is_submitted = 1
                         THEN [candidates[c] EXCEPT !.score =
                                  <<Max0(SumMarksObtained(
                                      {r \in responses : /\ r.candidate_id = c
                                                         /\ r.question_id # id}))>>]
                         ELSE candidates[c]]
    /\ res' = [route |-> "api", status |-> 200, success |-> TRUE]
    /\ UNCHANGED <<exams, lastExamId, lastQuestionId, lastCandidateId,
                   session, now, pending, loginState>>

\* DELETE /api/questions/:id
DeleteQuestion(id) ==
    /\ sql' = ""
    /\ responses' = {r \in responses : r.question_id # id}
    /\ questions' = Without(questions, {id})
    /\ res' = [route |-> "api", status |-> 200, success |-> TRUE]
    /\ UNCHANGED <<exams, lastExamId, lastQuestionId, candidates, lastCandidateId,
                   session, now, pending, loginState>>

\* DELETE /api/candidates/:id
DeleteCandidate(id) ==
    /\ sql' = ""
    /\ responses' = {r \in responses : r.candidate_id # id}
    /\ candidates' = Without(candidates, {id})
    /\ res' = [route |-> "api", status |-> 200, success |-> TRUE]
    /\ UNCHANGED <<exams, lastExamId, questions, lastQuestionId, lastCandidateId,
                   session, now, pending, loginState>>

\* ------------------------------------------------- candidate: exam flow
\* variant of the exam lookup of start: without the is_active condition
ExamsOfCode(code) == ExamIdsByCode(ToUpperCase(code))

\* SELECT * FROM exams WHERE exam_code = ? AND is_active = 1
ActiveExams(code) ==
    {e \in ExamIdsByCode(ToUpperCase(code)) : exams[e].is_active = 1}

\* variant of the duplicate-attempt check: an ongoing session of the key
\* lets the call through to the resume branch
DuplicateAttemptUnlessOngoing(e, key) ==
    /\ exams[e].prevent_duplicate_attempts # 0
    /\ CandidatesFor(e, key, 0) = {}
    /\ CandidatesFor(e, key, 1) # {}

\* the duplicate-attempt check of POST /exam/start
DuplicateAttempt(e, key) ==
    /\ exams[e].prevent_duplicate_attempts # 0
    /\ CandidatesFor(e, key, 1) # {}

\* variant of the ongoing-session lookup: is_submitted = 1 in the query
SubmittedSession(e, key) == CandidatesFor(e, key, 1)

\* variant of the ongoing-session lookup: a session whose time has run out
\* is no longer found
OngoingSessionInTime(e, key) ==
    {c \in CandidatesFor(e, key, 0) :
        now < candidates[c].start_time + exams[e].duration_minutes}

\* variant of the ongoing-session lookup: no session is ever found, so
\* start never resumes
OngoingSessionNever(e, key) == {}

\* the ongoing-session lookup of POST /exam/start
OngoingSession(e, key) == CandidatesFor(e, key, 0)

\* POST /exam/start
Start(client, email, code) ==
    LET e == FirstId(ActiveExams(code))
        key == ToLowerCase(email)
        ongoing == OngoingSession(e, key)
        id == lastCandidateId + 1
        row == [name |-> NameOf(client),
                email |-> key,
                exam_id |-> e,
                session_token |-> NewToken(id),
                start_time |-> now,
                end_time |-> None,
                score |-> None,
                total_marks |-> SumMarks(QuestionsOfExam(e)),
                is_submitted |-> 0]
        Reply(cand) ==
            [route |-> "start", status |-> 200, success |-> TRUE,
             sessionToken |-> cand.session_token,
             examCode |-> exams[e].exam_code,
             resultMode |-> exams[e].result_mode,
             startTime |-> cand.start_time]
    IN IF email = NULL
       THEN /\ res' = [route |-> "start", status |-> 400, success |-> FALSE,
                       message |-> "Name, email and exam code are required"]
            /\ sql' = ""
            /\ UNCHANGED <<tables, session, now, pending, loginState>>
       ELSE IF ~EmailRegexTest(email)
       THEN /\ res' = [route |-> "start", status |-> 400, success |-> FALSE,
                       message |-> "Please enter a valid email address"]
            /\ sql' = ""
            /\ UNCHANGED <<tables, session, now, pending, loginState>>
       ELSE IF ActiveExams(code) = {}
       THEN /\ res' = [route |-> "start", status |-> 404, success |-> FALSE,
                       message |-> "Invalid exam code or exam is not active"]
            /\ sql' = ""
            /\ UNCHANGED <<tables, session, now, pending, loginState>>
       ELSE IF DuplicateAttempt(e, key)
       THEN /\ res' = [route |-> "start", status |-> 400, success |-> FALSE,
                       message |-> "You have already taken this exam"]
            /\ sql' = ""
            /\ UNCHANGED <<tables, session, now, pending, loginState>>
       ELSE IF ongoing # {}
       THEN \* resume the existing session
            /\ session' = [session EXCEPT ![client] = FirstId(ongoing)]
            /\ res' = Reply(candidates[FirstId(ongoing)])
            /\ sql' = ""
            /\ UNCHANGED <<tables, now, pending, loginState>>
       ELSE \* create a new candidate session
            /\ lastCandidateId < MaxCandidates
            /\ candidates' = WithRow(candidates, id, row)
            /\ lastCandidateId' = id
            /\ session' = [session EXCEPT ![client] = id]
            /\ res' = Reply(row)
            /\ sql' = "INSERT INTO candidates"
            /\ UNCHANGED <<exams, lastExamId, questions, lastQuestionId,
                           responses, now, pending, loginState>>

\* The clock counts whole minutes: a Date is now * 60 * 1000 milliseconds.
\* elapsedSeconds = Math.floor((now - startTime) / 1000) of GET /exam/questions
ElapsedSeconds(candidate) == ((now - candidate.start_time) * 60 * 1000) \div 1000

\* variant of remainingSeconds: totalSeconds - elapsedSeconds without Math.max
RemainingSecondsUnclamped(candidate, exam) ==
    exam.duration_minutes * 60 - ElapsedSeconds(candidate)

\* remainingSeconds = Math.max(0, duration_minutes * 60 - elapsedSeconds)
RemainingSeconds(candidate, exam) ==
    Max0(exam.duration_minutes * 60 - ElapsedSeconds(candidate))

\* variant of the session lookup of answer: only while time remains
AnswerCandidateInTime(candidateId) ==
    /\ candidateId \in DOMAIN candidates
    /\ candidates[candidateId].is_submitted = 0
    /\ candidates[candidateId].exam_id \in DOMAIN exams
    /\ RemainingSeconds(candidates[candidateId],
                        exams[candidates[candidateId].exam_id]) > 0

\* variant of the session lookup of answer: without the is_submitted condition
AnswerCandidateSubmittedToo(candidateId) == candidateId \in DOMAIN candidates

\* SELECT * FROM candidates WHERE id = ? AND is_submitted = 0
AnswerCandidate(candidateId) ==
    /\ candidateId \in DOMAIN candidates
    /\ candidates[candidateId].is_submitted = 0

\* isCorrect of POST /exam/answer
IsCorrect(selectedOption, question) ==
    selectedOption # NULL /\ ToUpperCase(selectedOption) = question.correct_option

\* variant of marksObtained: the penalty scaled by the question's marks
MarksObtainedScaled(selectedOption, question, exam) ==
    IF selectedOption = NULL THEN 0
    ELSE IF IsCorrect(selectedOption, question) THEN question.marks
    ELSE IF exam.negative_marking > 0
         THEN 0 - exam.negative_marking * question.marks
    ELSE 0

\* variant of marksObtained: a wrong answer costs the question's marks when
\* negative_marking is 0
MarksObtainedPenaliseAlways(selectedOption, question, exam) ==
    IF selectedOption = NULL THEN 0
    ELSE IF IsCorrect(selectedOption, question) THEN question.marks
    ELSE IF exam.negative_marking > 0 THEN 0 - exam.negative_marking
    ELSE 0 - question.marks

\* marksObtained of POST /exam/answer
MarksObtained(selectedOption, question, exam) ==
    IF selectedOption = NULL THEN 0
    ELSE IF IsCorrect(selectedOption, question) THEN question.marks
    ELSE IF exam.negative_marking > 0 THEN 0 - exam.negative_marking
    ELSE 0

\* variant of the upsert: always INSERT
UpsertInsertOnly(candidateId, questionId, selectedOption, isCorrect, marksObtained) ==
    responses \cup {[candidate_id |-> candidateId,
                     question_id |-> questionId,
                     selected_option |-> selectedOption,
                     is_correct |-> isCorrect,
                     marks_obtained |-> marksObtained,
                     answered_at |-> now]}

\* variant of the upsert: the UPDATE adds to marks_obtained
UpsertAccumulate(candidateId, questionId, selectedOption, isCorrect, marksObtained) ==
    LET existing == {r \in responses : /\ r.candidate_id = candidateId
                                       /\ r.question_id = questionId}
    IN IF existing # {}
       THEN (responses \ existing) \cup
            {[r EXCEPT !.selected_option = selectedOption,
                       !.is_correct = isCorrect,
                       !.marks_obtained = r.marks_obtained + marksObtained,
                       !.answered_at = now] : r \in existing}
       ELSE responses \cup {[candidate_id |-> candidateId,
                             question_id |-> questionId,
                             selected_option |-> selectedOption,
                             is_correct |-> isCorrect,
                             marks_obtained |-> marksObtained,
                             answered_at |-> now]}

\* the UPDATE-or-INSERT of POST /exam/answer: the table afterwards
UpsertResponse(candidateId, questionId, selectedOption, isCorrect, marksObtained) ==
    LET existing == {r \in responses : /\ r.candidate_id = candidateId
                                       /\ r.question_id = questionId}
    IN IF existing # {}
       THEN (responses \ existing) \cup
            {[r EXCEPT !.selected_option = selectedOption,
                       !.is_correct = isCorrect,
                       !.marks_obtained = marksObtained,
                       !.answered_at = now] : r \in existing}
       ELSE responses \cup {[candidate_id |-> candidateId,
                             question_id |-> questionId,
                             selected_option |-> selectedOption,
                             is_correct |-> isCorrect,
                             marks_obtained |-> marksObtained,
                             answered_at |-> now]}

\* variant of the question lookup of answer: by id alone
QuestionOfAnyExam(questionId, examId) == questionId \in DOMAIN questions

\* SELECT * FROM questions WHERE id = ? AND exam_id = ? (answer)
QuestionOfExam(questionId, examId) ==
    /\ questionId \in DOMAIN questions
    /\ questions[questionId].exam_id = examId

\* POST /exam/answer
Answer(client, questionId, selectedOption) ==
    LET candidateId == session[client]
        examId == candidates[candidateId].exam_id
        valid == QuestionOfExam(questionId, examId)
        question == questions[questionId]
        exam == exams[examId]
        existing == {r \in responses : /\ r.candidate_id = candidateId
                                       /\ r.question_id = questionId}
    IN IF candidateId = 0
       THEN /\ res' = [route |-> "answer", status |-> 401, success |-> FALSE,
                       message |-> "Session expired"]
            /\ sql' = ""
            /\ UNCHANGED <<tables, session, now, pending, loginState>>
       ELSE IF ~AnswerCandidate(candidateId)
       THEN /\ res' = [route |-> "answer", status |-> 400, success |-> FALSE,
                       message |-> "Invalid session or exam already submitted"]
            /\ sql' = ""
            /\ UNCHANGED <<tables, session, now, pending, loginState>>
       ELSE IF ~valid
       THEN /\ res' = [route |-> "answer", status |-> 400, success |-> FALSE,
                       message |-> "Invalid question"]
            /\ sql' = ""
            /\ UNCHANGED <<tables, session, now, pending, loginState>>
       ELSE /\ responses' =
                UpsertResponse(candidateId, questionId, selectedOption,
                               IF IsCorrect(selectedOption, question) THEN 1 ELSE 0,
                               MarksObtained(selectedOption, question, exam))
            /\ sql' = IF existing # {} THEN "UPDATE responses"
                      ELSE "INSERT INTO responses"
            /\ res' = [route |-> "answer", status |-> 200, success |-> TRUE]
            /\ UNCHANGED <<exams, lastExamId, questions, lastQuestionId,
                           candidates, lastCandidateId, session, now, pending, loginState>>

\* variant of the final score: the sum without Math.max(0, ...)
FinalScoreUnclamped(candidateId) == SumMarksObtained(ResponsesOf(candidateId))

\* Math.max(0, COALESCE(SUM(marks_obtained), 0)) over the candidate's responses
FinalScore(candidateId) == Max0(SumMarksObtained(ResponsesOf(candidateId)))

\* variant of the end_time of submit: left NULL
SubmitEndTimeNull == None

\* end_time = datetime('now') of the UPDATE of submit
SubmitEndTime == Some(now)

\* SELECT * FROM candidates WHERE id = ? AND is_submitted = 0 (submit)
\* variant: the lookup without the is_submitted condition
AnyCandidate(candidateId) == candidateId \in DOMAIN candidates

\* variant: the lookup joined with the exam, which must be active
SubmitCandidateOfActiveExam(candidateId) ==
    /\ candidateId \in DOMAIN candidates
    /\ candidates[candidateId].is_submitted = 0
    /\ candidates[candidateId].exam_id \in DOMAIN exams
    /\ exams[candidates[candidateId].exam_id].is_active # 0

SubmitCandidate(candidateId) ==
    /\ candidateId \in DOMAIN candidates
    /\ candidates[candidateId].is_submitted = 0

\* POST /exam/submit
Submit(client) ==
    LET candidateId == session[client]
    IN IF candidateId = 0
       THEN /\ res' = [route |-> "submit", status |-> 401, success |-> FALSE,
                       message |-> "Session expired"]
            /\ sql' = ""
            /\ UNCHANGED <<tables, session, now, pending, loginState>>
       ELSE IF ~SubmitCandidate(candidateId)
       THEN /\ res' = [route |-> "submit", status |-> 400, success |-> FALSE,
                       message |-> "Invalid session or exam already submitted"]
            /\ sql' = ""
            /\ UNCHANGED <<tables, session, now, pending, loginState>>
       ELSE /\ candidates' = [candidates EXCEPT
                                ![candidateId].is_submitted = 1,
                                ![candidateId].end_time = SubmitEndTime,
                                ![candidateId].score =
                                    Some(FinalScore(candidateId))]
            /\ session' = [session EXCEPT ![client] = 0]
            /\ sql' = "UPDATE candidates"
            /\ res' = [route |-> "submit", status |-> 200, success |-> TRUE,
                       message |-> "Exam submitted successfully"]
            /\ UNCHANGED <<exams, lastExamId, questions, lastQuestionId,
                           lastCandidateId, responses, now, pending, loginState>>

\* variant of the percentage: the division without the total_marks > 0
\* test; -1 stands for the "NaN" and "Infinity" that toFixed gives a
\* division by 0
PercentageUnguarded(score, total_marks) ==
    IF total_marks # 0
    THEN (2 * 10000 * score + total_marks) \div (2 * total_marks)
    ELSE 0 - 1

\* ((score / total_marks) * 100).toFixed(2), in hundredths of a percent;
\* 0 when total_marks is not positive.
Percentage(score, total_marks) ==
    IF total_marks > 0
    THEN (2 * 10000 * score + total_marks) \div (2 * total_marks)
    ELSE 0

\* the switch on result_mode of GET /exam/result/:sessionToken
\* variant: after_publish shows the result whether published or not
CanViewResultAnyPublishState(exam) ==
    CASE exam.result_mode = "private" -> TRUE
      [] exam.result_mode = "public" -> TRUE
      [] exam.result_mode = "after_publish" -> TRUE
      [] OTHER -> FALSE

CanViewResult(exam) ==
    CASE exam.result_mode = "private" -> TRUE
      [] exam.result_mode = "public" -> TRUE
      [] exam.result_mode = "after_publish" -> exam.results_published = 1
      [] OTHER -> FALSE

ResultMessage(exam) ==
    CASE exam.result_mode \in {"private", "public"} -> ""
      [] exam.result_mode = "after_publish" ->
            IF exam.results_published = 1 THEN ""
            ELSE "Results will be published by the administrator"
      [] OTHER -> "Results are only visible to the administrator"

\* SELECT c.*, e.result_mode, e.results_published FROM candidates c
\* JOIN exams e ON c.exam_id = e.id WHERE c.session_token = ?
ResultRows(token) ==
    {c \in DOMAIN candidates : /\ candidates[c].session_token = token
                               /\ candidates[c].exam_id \in DOMAIN exams}

\* the body sent once the session is found and submitted; a NULL score
\* divides as 0
ResultBody(c, exam) ==
    IF CanViewResult(exam)
    THEN [route |-> "result", status |-> 200, success |-> TRUE, canView |-> TRUE,
          name |-> c.name,
          score |-> c.score, totalMarks |-> c.total_marks,
          percentage |-> Percentage(IF c.score = None THEN 0 ELSE c.score[1],
                                    c.total_marks)]
    ELSE [route |-> "result", status |-> 200, success |-> TRUE, canView |-> FALSE,
          message |-> ResultMessage(exam)]

\* the reply of GET /exam/result/:sessionToken
\* variant: the is_submitted check left out
ResultReplyOfAnySession(token) ==
    LET rows == ResultRows(token)
        c == candidates[FirstId(rows)]
    IN IF rows = {}
       THEN [route |-> "result", status |-> 404, success |-> FALSE,
             message |-> "Result not found"]
       ELSE ResultBody(c, exams[c.exam_id])

ResultReply(token) ==
    LET rows == ResultRows(token)
        c == candidates[FirstId(rows)]
    IN IF rows = {}
       THEN [route |-> "result", status |-> 404, success |-> FALSE,
             message |-> "Result not found"]
       ELSE IF c.is_submitted = 0
       THEN [route |-> "result", status |-> 400, success |-> FALSE,
             message |-> "Exam not yet submitted"]
       ELSE ResultBody(c, exams[c.exam_id])

\* GET /exam/result/:sessionToken
Result(token) ==
    /\ sql' = ""
    /\ res' = ResultReply(token)
    /\ UNCHANGED <<tables, session, now, pending, loginState>>

\* ------------------------------------------------------------ leaderboard
\* The leaderboard is computed from the tables it is given: examsTable and
\* candidatesTable are the contents of exams and candidates the request reads.

\* variant of the 403 condition: only private exams have no leaderboard
LeaderboardAvailableUnlessPrivate(exam) ==
    exam.result_mode # "private"

\* variant of the 403 condition: results_published is not consulted
LeaderboardAvailableAnyPublishState(exam) ==
    exam.result_mode \in {"public", "after_publish"}

\* the condition of the 403 reply of GET /exam/leaderboard/:examCode, negated
LeaderboardAvailable(exam) ==
    \/ exam.result_mode = "public"
    \/ exam.result_mode = "after_publish" /\ exam.results_published # 0

\* variant of the WHERE clause: is_submitted is not tested
SessionsOfExam(candidatesTable, examId) ==
    {c \in DOMAIN candidatesTable : candidatesTable[c].exam_id = examId}

\* WHERE exam_id = ? AND is_submitted = 1
SubmittedOf(candidatesTable, examId) ==
    {c \in DOMAIN candidatesTable : /\ candidatesTable[c].exam_id = examId
                                    /\ candidatesTable[c].is_submitted = 1}

\* A nullable number as SQLite orders it: NULL sorts below every number.
SortKey(v) == IF v = None THEN -1 ELSE v[1]

\* variant of the ORDER BY: ties in score put the latest end_time first
SortsBeforeLatestFirst(a, b) ==
    \/ SortKey(a.score) > SortKey(b.score)
    \/ /\ SortKey(a.score) = SortKey(b.score)
       /\ SortKey(a.end_time) > SortKey(b.end_time)

\* ORDER BY score DESC, end_time ASC: row a sorts strictly before row b
SortsBefore(a, b) ==
    \/ SortKey(a.score) > SortKey(b.score)
    \/ /\ SortKey(a.score) = SortKey(b.score)
       /\ SortKey(a.end_time) < SortKey(b.end_time)

\* The sequences of all elements of S, each once.
Orderings(S) ==
    {s \in [1..Cardinality(S) -> S] :
        \A i, j \in 1..Cardinality(S) : i # j => s[i] # s[j]}

\* The results db.all may return for the leaderboard query: SQL leaves the
\* order of rows with equal sort keys to the engine.
LeaderboardRows(candidatesTable, examId) ==
    {s \in Orderings(SubmittedOf(candidatesTable, examId)) :
        \A i, j \in 1..Len(s) :
            i < j => ~SortsBefore(candidatesTable[s[j]], candidatesTable[s[i]])}

\* one element of leaderboard.map((c, index) => ...); a NULL score divides
\* as 0
LeaderboardEntry(c, index) ==
    [rank |-> index + 1,
     name |-> c.name,
     score |-> c.score,
     totalMarks |-> c.total_marks,
     percentage |-> Percentage(IF c.score = None THEN 0 ELSE c.score[1],
                               c.total_marks)]

\* the replies GET /exam/leaderboard/:examCode may send
LeaderboardReplies(examsTable, candidatesTable, examCode) ==
    LET ids == {e \in DOMAIN examsTable :
                   examsTable[e].exam_code = ToUpperCase(examCode)}
        e == FirstId(ids)
    IN IF ids = {}
       THEN {[route |-> "leaderboard", status |-> 404, success |-> FALSE,
              message |-> "Exam not found"]}
       ELSE IF ~LeaderboardAvailable(examsTable[e])
       THEN {[route |-> "leaderboard", status |-> 403, success |-> FALSE,
              message |-> "Leaderboard not available for this exam"]}
       ELSE {[route |-> "leaderboard", status |-> 200, success |-> TRUE,
              leaderboard |-> [i \in 1..Len(rows) |->
                                  LeaderboardEntry(candidatesTable[rows[i]], i - 1)]] :
                rows \in LeaderboardRows(candidatesTable, e)}

\* GET /exam/leaderboard/:examCode
Leaderboard(examCode) ==
    /\ sql' = ""
    /\ res' \in LeaderboardReplies(exams, candidates, examCode)
    /\ UNCHANGED <<tables, session, now, pending, loginState>>

\* ------------------------------------------------------ candidate: paper
\* SELECT ... FROM questions WHERE exam_id = ? ORDER BY question_order, id
\* (exams of the model are created without shuffle_questions)
QuestionsInOrder(examId) ==
    CHOOSE s \in Orderings(QuestionsOfExam(examId)) :
        \A i, j \in 1..Len(s) :
            i < j => \/ questions[s[i]].question_order < questions[s[j]].question_order
                     \/ /\ questions[s[i]].question_order = questions[s[j]].question_order
                        /\ s[i] < s[j]

\* responseMap: question_id -> selected_option over the candidate's rows; of
\* two rows for one question the later in the result wins, and the result
\* has no ORDER BY.
ResponseMaps(candidateId) ==
    LET answered == {r.question_id : r \in ResponsesOf(candidateId)}
    IN {m \in [answered -> OptionInputs] :
           \A q \in answered :
               \E r \in ResponsesOf(candidateId) :
                   r.question_id = q /\ r.selected_option = m[q]}

\* GET /exam/questions
Questions(client) ==
    LET candidateId == session[client]
        joined == candidateId \in DOMAIN candidates
                  /\ candidates[candidateId].exam_id \in DOMAIN exams
        candidate == candidates[candidateId]
        exam == exams[candidate.exam_id]
    IN /\ sql' = ""
       /\ UNCHANGED <<tables, session, now, pending, loginState>>
       /\ IF candidateId = 0
          THEN res' = [route |-> "questions", status |-> 401, success |-> FALSE,
                       message |-> "Session expired. Please start again."]
          ELSE IF ~joined
          THEN res' = [route |-> "questions", status |-> 404, success |-> FALSE,
                       message |-> "Session not found"]
          ELSE IF candidate.is_submitted # 0
          THEN res' = [route |-> "questions", status |-> 400, success |-> FALSE,
                       message |-> "Exam already submitted"]
          ELSE res' \in {[route |-> "questions", status |-> 200,
                          questions |-> QuestionsInOrder(candidate.exam_id),
                          responses |-> m,
                          remainingSeconds |-> RemainingSeconds(candidate, exam)] :
                            m \in ResponseMaps(candidateId)}

\* ---------------------------------------------------------- operator: login
\* server.js: the limit of failed attempts and the lockout in milliseconds
MAX_ATTEMPTS == 5
LOCKOUT_TIME == 15 * 60 * 1000

\* Date.now(): the clock in milliseconds
DateNow == now * 60 * 1000

\* the admins table: the default account db.js creates
Admins == {[username |-> "admin", password |-> "admin123"]}

\* admin && bcrypt.compareSync(password, admin.password): the account of
\* the username exists and the password is the one that was hashed
CredentialsMatch(username, password) ==
    \E admin \in Admins : /\ admin.username = username
                          /\ admin.password = password

\* variant of the filter: an attempt exactly LOCKOUT_TIME old still counts
RecentAttemptsInclusive(timestamps) ==
    LET Recent(t) == DateNow - t <= LOCKOUT_TIME
    IN SelectSeq(timestamps, Recent)

\* attempts.timestamps.filter(t => now - t < LOCKOUT_TIME)
RecentAttempts(timestamps) ==
    LET Recent(t) == DateNow - t < LOCKOUT_TIME
    IN SelectSeq(timestamps, Recent)

\* Math.ceil(ms / 1000 / 60) for ms >= 0
CeilMinutes(ms) == (ms + 60 * 1000 - 1) \div (60 * 1000)

\* recordLoginAttempt(ip) on the Map attempts
RecordLoginAttempt(ip, attempts) ==
    [i \in DOMAIN attempts \cup {ip} |->
        IF i = ip
        THEN Append(IF ip \in DOMAIN attempts THEN attempts[ip] ELSE <<>>, DateNow)
        ELSE attempts[i]]

\* clearLoginAttempts(ip) on the Map attempts
ClearLoginAttempts(ip, attempts) ==
    [i \in DOMAIN attempts \ {ip} |-> attempts[i]]

\* the credential checks made so far, all addresses together
ChecksMade ==
    Cardinality(UNION {{<<ip, i>> : i \in 1..Len(credentialChecks[ip])} :
                          ip \in LoginIPs})

\* POST /login: rateLimiter, then the credential check. The admin id the
\* handler puts in the session is read by no handler modelled here.
Login(ip, username, password) ==
    LET recorded == ip \in DOMAIN loginAttempts
        recent == IF recorded THEN RecentAttempts(loginAttempts[ip]) ELSE <<>>
        cleaned == IF recorded THEN [loginAttempts EXCEPT ![ip] = recent]
                   ELSE loginAttempts
    IN /\ sql' = ""
       /\ IF Len(recent) >= MAX_ATTEMPTS
          THEN /\ loginAttempts' = cleaned
               /\ res' = [route |-> "login", status |-> 429, success |-> FALSE,
                          remainingTime |->
                             CeilMinutes(LOCKOUT_TIME - (DateNow - recent[1]))]
               /\ UNCHANGED credentialChecks
          ELSE /\ ChecksMade < MaxChecks
               /\ credentialChecks' =
                     [credentialChecks EXCEPT ![ip] =
                         Append(@, [at |-> DateNow,
                                    ok |-> CredentialsMatch(username, password)])]
               /\ IF CredentialsMatch(username, password)
                  THEN /\ loginAttempts' = ClearLoginAttempts(ip, cleaned)
                       /\ res' = [route |-> "login", status |-> 200,
                                  success |-> TRUE, redirect |-> "/dashboard"]
                  ELSE /\ loginAttempts' = RecordLoginAttempt(ip, cleaned)
                       /\ res' = [route |-> "login", status |-> 401,
                                  success |-> FALSE,
                                  message |-> "Invalid credentials"]
       /\ UNCHANGED <<tables, session, now, pending>>

\* the clock advances by some minutes between two login requests
Wait(minutes) ==
    /\ now + minutes <= MaxLoginTime
    /\ now' = now + minutes
    /\ UNCHANGED <<tables, session, res, sql, pending, loginState>>

\* ----------------------------------------- handlers, one store call a step
\* The handlers of routes/exam.js as sequences of calls on the store. Each
\* action is one db.get or db.run together with the handler's own code up to
\* its next call, so that the calls of two requests served at the same time
\* over one store interleave. pending[client] holds the request's local
\* variables between two calls and, once answered, its reply.
Free(client) == pending[client].pc \in {"idle", "done"}

At(client, route, pc) ==
    /\ pending[client].route = route
    /\ pending[client].pc = pc

\* res.status(...).json(reply): the request is answered
Finish(client, reply) ==
    /\ pending' = [pending EXCEPT ![client] =
                      [route |-> reply.route, pc |-> "done", reply |-> reply]]
    /\ res' = reply

\* the handler goes on to its next store call with the locals it holds
Continue(client, locals) ==
    /\ pending' = [pending EXCEPT ![client] = locals]
    /\ res' = res

\* POST /exam/start up to the exam lookup
StartSelectExam(client, email, code) ==
    LET found == ActiveExams(code)
        e == FirstId(found)
    IN /\ Free(client)
       /\ sql' = ""
       /\ UNCHANGED <<tables, session, now, loginState>>
       /\ IF email = NULL
          THEN Finish(client, [route |-> "start", status |-> 400, success |-> FALSE,
                               message |-> "Name, email and exam code are required"])
          ELSE IF ~EmailRegexTest(email)
          THEN Finish(client, [route |-> "start", status |-> 400, success |-> FALSE,
                               message |-> "Please enter a valid email address"])
          ELSE IF found = {}
          THEN Finish(client, [route |-> "start", status |-> 404, success |-> FALSE,
                               message |-> "Invalid exam code or exam is not active"])
          ELSE Continue(client,
                        [route |-> "start",
                         pc |-> IF exams[e].prevent_duplicate_attempts # 0
                                THEN "duplicate" ELSE "ongoing",
                         examId |-> e,
                         exam |-> exams[e],
                         email |-> ToLowerCase(email)])

\* POST /exam/start: the duplicate-attempt lookup
StartSelectDuplicate(client) ==
    LET p == pending[client]
    IN /\ At(client, "start", "duplicate")
       /\ sql' = ""
       /\ UNCHANGED <<tables, session, now, loginState>>
       /\ IF CandidatesFor(p.examId, p.email, 1) # {}
          THEN Finish(client, [route |-> "start", status |-> 400, success |-> FALSE,
                               message |-> "You have already taken this exam"])
          ELSE Continue(client, [p EXCEPT !.pc = "ongoing"])

\* the body of the success reply of POST /exam/start
StartReply(candidate, exam) ==
    [route |-> "start", status |-> 200, success |-> TRUE,
     sessionToken |-> candidate.session_token,
     examCode |-> exam.exam_code,
     resultMode |-> exam.result_mode,
     startTime |-> candidate.start_time]

\* POST /exam/start: the ongoing-session lookup and the resume branch
StartSelectOngoing(client) ==
    LET p == pending[client]
        ongoing == OngoingSession(p.examId, p.email)
    IN /\ At(client, "start", "ongoing")
       /\ sql' = ""
       /\ UNCHANGED <<tables, now, loginState>>
       /\ IF ongoing # {}
          THEN /\ session' = [session EXCEPT ![client] = FirstId(ongoing)]
               /\ Finish(client, StartReply(candidates[FirstId(ongoing)], p.exam))
          ELSE /\ session' = session
               /\ Continue(client, [p EXCEPT !.pc = "total"])

\* POST /exam/start: SELECT SUM(marks) of the exam's questions
StartSelectTotal(client) ==
    LET p == pending[client]
    IN /\ At(client, "start", "total")
       /\ sql' = ""
       /\ UNCHANGED <<tables, session, now, loginState>>
       /\ Continue(client,
                   [route |-> "start", pc |-> "insert", examId |-> p.examId,
                    exam |-> p.exam, email |-> p.email,
                    totalMarks |-> SumMarks(QuestionsOfExam(p.examId))])

\* POST /exam/start: INSERT INTO candidates
StartInsert(client) ==
    LET p == pending[client]
        id == lastCandidateId + 1
    IN /\ At(client, "start", "insert")
       /\ lastCandidateId < MaxCandidates
       /\ candidates' = WithRow(candidates, id,
                                [name |-> NameOf(client),
                                 email |-> p.email,
                                 exam_id |-> p.examId,
                                 session_token |-> NewToken(id),
                                 start_time |-> now,
                                 end_time |-> None,
                                 score |-> None,
                                 total_marks |-> p.totalMarks,
                                 is_submitted |-> 0])
       /\ lastCandidateId' = id
       /\ sql' = "INSERT INTO candidates"
       /\ Continue(client, [route |-> "start", pc |-> "token", exam |-> p.exam,
                            sessionToken |-> NewToken(id)])
       /\ UNCHANGED <<exams, lastExamId, questions, lastQuestionId, responses,
                      session, now, loginState>>

\* POST /exam/start: the row read back by its token, the cookie, the reply
StartSelectByToken(client) ==
    LET p == pending[client]
        rows == {c \in DOMAIN candidates :
                    candidates[c].session_token = p.sessionToken}
    IN /\ At(client, "start", "token")
       /\ sql' = ""
       /\ UNCHANGED <<tables, now, loginState>>
       /\ IF rows = {}
          THEN /\ session' = session
               /\ Finish(client,
                         [route |-> "start", status |-> 500, success |-> FALSE,
                          message |-> "Failed to create session. Please try again."])
          ELSE /\ session' = [session EXCEPT ![client] = FirstId(rows)]
               /\ Finish(client, StartReply(candidates[FirstId(rows)], p.exam))

\* POST /exam/answer up to the candidate lookup
AnswerSelectCandidate(client, questionId, selectedOption) ==
    LET candidateId == session[client]
    IN /\ Free(client)
       /\ sql' = ""
       /\ UNCHANGED <<tables, session, now, loginState>>
       /\ IF candidateId = 0
          THEN Finish(client, [route |-> "answer", status |-> 401, success |-> FALSE,
                               message |-> "Session expired"])
          ELSE IF ~AnswerCandidate(candidateId)
          THEN Finish(client,
                      [route |-> "answer", status |-> 400, success |-> FALSE,
                       message |-> "Invalid session or exam already submitted"])
          ELSE Continue(client,
                        [route |-> "answer", pc |-> "question",
                         candidateId |-> candidateId,
                         examId |-> candidates[candidateId].exam_id,
                         questionId |-> questionId,
                         selectedOption |-> selectedOption])

\* POST /exam/answer: the question lookup
AnswerSelectQuestion(client) ==
    LET p == pending[client]
    IN /\ At(client, "answer", "question")
       /\ sql' = ""
       /\ UNCHANGED <<tables, session, now, loginState>>
       /\ IF /\ p.questionId \in DOMAIN questions
             /\ questions[p.questionId].exam_id = p.examId
          THEN Continue(client,
                        [route |-> "answer", pc |-> "exam",
                         candidateId |-> p.candidateId, examId |-> p.examId,
                         questionId |-> p.questionId,
                         selectedOption |-> p.selectedOption,
                         question |-> questions[p.questionId]])
          ELSE Finish(client, [route |-> "answer", status |-> 400, success |-> FALSE,
                               message |-> "Invalid question"])

\* POST /exam/answer: the exam lookup and the grading; reading
\* negative_marking of an exam that is gone throws
AnswerSelectExam(client) ==
    LET p == pending[client]
        isCorrect == IsCorrect(p.selectedOption, p.question)
    IN /\ At(client, "answer", "exam")
       /\ sql' = ""
       /\ UNCHANGED <<tables, session, now, loginState>>
       /\ IF /\ p.examId \notin DOMAIN exams
             /\ p.selectedOption # NULL
             /\ ~isCorrect
          THEN Finish(client, [route |-> "answer", status |-> 500, success |-> FALSE,
                               message |-> "Failed to save answer"])
          ELSE Continue(client,
                        [route |-> "answer", pc |-> "existing",
                         candidateId |-> p.candidateId,
                         questionId |-> p.questionId,
                         selectedOption |-> p.selectedOption,
                         isCorrect |-> IF isCorrect THEN 1 ELSE 0,
                         marksObtained |->
                             IF p.examId \in DOMAIN exams
                             THEN MarksObtained(p.selectedOption, p.question,
                                                exams[p.examId])
                             ELSE IF isCorrect THEN p.question.marks ELSE 0])

\* SELECT id FROM responses WHERE candidate_id = ? AND question_id = ?
ExistingResponse(candidateId, questionId) ==
    {r \in responses : /\ r.candidate_id = candidateId
                       /\ r.question_id = questionId}

\* POST /exam/answer: the lookup of an existing response
AnswerSelectExisting(client) ==
    LET p == pending[client]
    IN /\ At(client, "answer", "existing")
       /\ sql' = ""
       /\ UNCHANGED <<tables, session, now, loginState>>
       /\ Continue(client,
                   [p EXCEPT !.pc =
                       IF ExistingResponse(p.candidateId, p.questionId) # {}
                       THEN "update" ELSE "insert"])

\* POST /exam/answer: UPDATE responses ... WHERE candidate_id = ? AND
\* question_id = ?
AnswerUpdate(client) ==
    LET p == pending[client]
        existing == ExistingResponse(p.candidateId, p.questionId)
    IN /\ At(client, "answer", "update")
       /\ responses' = (responses \ existing) \cup
                       {[r EXCEPT !.selected_option = p.selectedOption,
                                  !.is_correct = p.isCorrect,
                                  !.marks_obtained = p.marksObtained,
                                  !.answered_at = now] : r \in existing}
       /\ sql' = "UPDATE responses"
       /\ Finish(client, [route |-> "answer", status |-> 200, success |-> TRUE])
       /\ UNCHANGED <<exams, lastExamId, questions, lastQuestionId, candidates,
                      lastCandidateId, session, now, loginState>>

\* POST /exam/answer: INSERT INTO responses; idx_responses_unique makes the
\* statement throw when the pair has a row
AnswerInsert(client) ==
    LET p == pending[client]
    IN /\ At(client, "answer", "insert")
       /\ sql' = "INSERT INTO responses"
       /\ IF ExistingResponse(p.candidateId, p.questionId) # {}
          THEN /\ responses' = responses
               /\ Finish(client,
                         [route |-> "answer", status |-> 500, success |-> FALSE,
                          message |-> "Failed to save answer"])
          ELSE /\ responses' = responses \cup
                               {[candidate_id |-> p.candidateId,
                                 question_id |-> p.questionId,
                                 selected_option |-> p.selectedOption,
                                 is_correct |-> p.isCorrect,
                                 marks_obtained |-> p.marksObtained,
                                 answered_at |-> now]}
               /\ Finish(client, [route |-> "answer", status |-> 200,
                                  success |-> TRUE])
       /\ UNCHANGED <<exams, lastExamId, questions, lastQuestionId, candidates,
                      lastCandidateId, session, now, loginState>>

\* POST /exam/submit up to the candidate lookup
SubmitSelectCandidate(client) ==
    LET candidateId == session[client]
    IN /\ Free(client)
       /\ sql' = ""
       /\ UNCHANGED <<tables, session, now, loginState>>
       /\ IF candidateId = 0
          THEN Finish(client, [route |-> "submit", status |-> 401, success |-> FALSE,
                               message |-> "Session expired"])
          ELSE IF ~SubmitCandidate(candidateId)
          THEN Finish(client,
                      [route |-> "submit", status |-> 400, success |-> FALSE,
                       message |-> "Invalid session or exam already submitted"])
          ELSE Continue(client, [route |-> "submit", pc |-> "score",
                                 candidateId |-> candidateId])

\* POST /exam/submit: the sum of marks_obtained and Math.max
SubmitSelectScore(client) ==
    LET p == pending[client]
    IN /\ At(client, "submit", "score")
       /\ sql' = ""
       /\ UNCHANGED <<tables, session, now, loginState>>
       /\ Continue(client, [route |-> "submit", pc |-> "update",
                            candidateId |-> p.candidateId,
                            score |-> FinalScore(p.candidateId)])

\* POST /exam/submit: UPDATE candidates ... WHERE id = ?, the cookie cleared,
\* the reply
SubmitUpdate(client) ==
    LET p == pending[client]
        id == p.candidateId
    IN /\ At(client, "submit", "update")
       /\ candidates' = IF id \in DOMAIN candidates
                        THEN [candidates EXCEPT ![id].is_submitted = 1,
                                                ![id].end_time = Some(now),
                                                ![id].score = Some(p.score)]
                        ELSE candidates
       /\ session' = [session EXCEPT ![client] = 0]
       /\ sql' = "UPDATE candidates"
       /\ Finish(client, [route |-> "submit", status |-> 200, success |-> TRUE,
                          message |-> "Exam submitted successfully"])
       /\ UNCHANGED <<exams, lastExamId, questions, lastQuestionId,
                      lastCandidateId, responses, now, loginState>>

\* ------------------------------------------- the static (localStorage) API
\* js/api.js over js/storage.js, as functions of the collections they read:
\* each returns its reply's success flag and the collections it leaves. A
\* collection is an array in creation order, so find returns the row with
\* the least id. Exams and questions are the operator's data, the same for
\* both implementations.

\* MCQUtils.isValidEmail
StaticIsValidEmail(s) == EmailRegexTest(s)

\* storage.getExamByCode
StaticExamsByCode(code) ==
    {e \in DOMAIN exams : exams[e].exam_code = ToUpperCase(code)}

\* storage.getCandidateByEmailAndExam: the matches, of which find takes the
\* first
StaticCandidatesByEmailAndExam(cands, email, examId) ==
    {c \in DOMAIN cands : /\ ToLowerCase(cands[c].email) = ToLowerCase(email)
                          /\ cands[c].exam_id = examId}

\* storage.getCandidateBySessionToken: the matches
StaticCandidatesByToken(cands, token) ==
    {c \in DOMAIN cands : cands[c].session_token = token}

RECURSIVE StaticTotalMarks(_)
\* questions.reduce((sum, q) => sum + (q.marks || 1), 0)
StaticTotalMarks(Q) ==
    IF Q = {} THEN 0
    ELSE LET q == CHOOSE y \in Q : TRUE
         IN (IF questions[q].marks = 0 THEN 1 ELSE questions[q].marks)
            + StaticTotalMarks(Q \ {q})

\* api.startExam; the session token is a fresh UUID and start_time the
\* current timestamp
StaticStartExam(cands, lastId, name, email, code) ==
    LET found == StaticExamsByCode(code)
        e == FirstId(found)
        matches == StaticCandidatesByEmailAndExam(cands, email, e)
        first == cands[FirstId(matches)]
        failure == [success |-> FALSE, candidates |-> cands, lastId |-> lastId]
        row == [name |-> name,
                email |-> ToLowerCase(email),
                exam_id |-> e,
                session_token |-> NewToken(lastId + 1),
                start_time |-> now,
                end_time |-> None,
                score |-> Some(0),
                total_marks |-> StaticTotalMarks(QuestionsOfExam(e)),
                is_submitted |-> 0]
    IN IF email = NULL THEN failure
       ELSE IF ~StaticIsValidEmail(email) THEN failure
       ELSE IF found = {} THEN failure
       ELSE IF exams[e].is_active = 0 THEN failure
       ELSE IF /\ exams[e].prevent_duplicate_attempts # 0
               /\ matches # {}
               /\ first.is_submitted # 0
       THEN failure
       ELSE IF matches # {} /\ first.is_submitted = 0
       THEN [success |-> TRUE, candidates |-> cands, lastId |-> lastId,
             candidateId |-> FirstId(matches),
             sessionToken |-> first.session_token]
       ELSE [success |-> TRUE,
             candidates |-> WithRow(cands, lastId + 1, row),
             lastId |-> lastId + 1,
             candidateId |-> lastId + 1,
             sessionToken |-> row.session_token]

\* storage.saveResponse: the responses collection afterwards
StaticSaveResponse(resps, candidateId, questionId, selectedOption, isCorrect, marks) ==
    LET existing == {r \in resps : /\ r.candidate_id = candidateId
                                   /\ r.question_id = questionId}
        response == [candidate_id |-> candidateId,
                     question_id |-> questionId,
                     selected_option |-> selectedOption,
                     is_correct |-> IF isCorrect THEN 1 ELSE 0,
                     marks_obtained |-> marks,
                     answered_at |-> now]
    IN (resps \ existing) \cup {response}

\* api.saveAnswer
StaticSaveAnswer(cands, resps, token, questionId, selectedOption) ==
    LET found == StaticCandidatesByToken(cands, token)
        id == FirstId(found)
        candidate == cands[id]
        question == questions[questionId]
        exam == exams[candidate.exam_id]
        isCorrect == /\ selectedOption # NULL
                     /\ ToUpperCase(selectedOption) = question.correct_option
        marksObtained ==
            IF selectedOption = NULL THEN 0
            ELSE IF isCorrect
                 THEN (IF question.marks = 0 THEN 1 ELSE question.marks)
            ELSE IF exam.negative_marking > 0 THEN 0 - exam.negative_marking
            ELSE 0
        failure == [success |-> FALSE, responses |-> resps]
    IN IF found = {} THEN failure
       ELSE IF candidate.is_submitted # 0 THEN failure
       ELSE IF \/ questionId \notin DOMAIN questions
               \/ question.exam_id # candidate.exam_id
       THEN failure
       ELSE [success |-> TRUE,
             responses |-> StaticSaveResponse(resps, id, questionId,
                                              selectedOption, isCorrect,
                                              marksObtained)]

\* api.submitExam
StaticSubmitExam(cands, resps, token) ==
    LET found == StaticCandidatesByToken(cands, token)
        id == FirstId(found)
        totalScore == SumMarksObtained({r \in resps : r.candidate_id = id})
        failure == [success |-> FALSE, candidates |-> cands]
    IN IF found = {} THEN failure
       ELSE IF cands[id].is_submitted # 0 THEN failure
       ELSE [success |-> TRUE,
             candidates |-> [cands EXCEPT ![id].is_submitted = 1,
                                          ![id].end_time = Some(now),
                                          ![id].score = Some(Max0(totalScore))]]

\* api.getResult: the success flag of the reply
StaticGetResult(cands, token) ==
    LET found == StaticCandidatesByToken(cands, token)
    IN /\ found # {}
       /\ cands[FirstId(found)].is_submitted # 0
       /\ cands[FirstId(found)].exam_id \in DOMAIN exams

\* api.getLeaderboard: the success flag of the reply
StaticGetLeaderboard(code) ==
    LET found == StaticExamsByCode(code)
        exam == exams[FirstId(found)]
    IN /\ found # {}
       /\ \/ exam.result_mode = "public"
          \/ exam.result_mode = "after_publish" /\ exam.results_published # 0

\* The static API as steps on the collections: candidates, responses and
\* the counters are the localStorage items, and session[client] is the id
\* of the session whose token the client's page holds.
\* api.startExam called by the page of a client
StaticStart(client, email, code) ==
    LET s == StaticStartExam(candidates, lastCandidateId, NameOf(client), email, code)
    IN /\ s.lastId <= MaxCandidates
       /\ candidates' = s.candidates
       /\ lastCandidateId' = s.lastId
       /\ sql' = ""
       /\ IF s.success
          THEN /\ session' = [session EXCEPT ![client] = s.candidateId]
               /\ res' = [route |-> "start", status |-> 200, success |-> TRUE,
                          sessionToken |-> s.sessionToken]
          ELSE /\ session' = session
               /\ res' = [route |-> "start", status |-> 400, success |-> FALSE]
       /\ UNCHANGED <<exams, lastExamId, questions, lastQuestionId, responses,
                      now, pending, loginState>>

\* the token the page of a client passes: that of the session it holds
StaticTokenOf(client) ==
    IF session[client] \in DOMAIN candidates
    THEN candidates[session[client]].session_token
    ELSE 0

\* api.saveAnswer called by the page of a client
StaticAnswer(client, questionId, selectedOption) ==
    LET s == StaticSaveAnswer(candidates, responses, StaticTokenOf(client),
                              questionId, selectedOption)
    IN /\ responses' = s.responses
       /\ sql' = ""
       /\ res' = [route |-> "answer", status |-> IF s.success THEN 200 ELSE 400,
                  success |-> s.success]
       /\ UNCHANGED <<exams, lastExamId, questions, lastQuestionId, candidates,
                      lastCandidateId, session, now, pending, loginState>>

\* api.submitExam called by the page of a client
StaticSubmit(client) ==
    LET s == StaticSubmitExam(candidates, responses, StaticTokenOf(client))
    IN /\ candidates' = s.candidates
       /\ sql' = ""
       /\ res' = [route |-> "submit", status |-> IF s.success THEN 200 ELSE 400,
                  success |-> s.success]
       /\ UNCHANGED <<exams, lastExamId, questions, lastQuestionId,
                      lastCandidateId, responses, session, now, pending, loginState>>

\* ------------------------------------------------------ specifications
ExamIds == 1..MaxExams
QuestionIds == 1..MaxQuestions
CandidateIds == 1..MaxCandidates
TokenInputs == {NewToken(i) : i \in 1..(MaxCandidates + 1)}

\* Scoring: one exam code and one candidate e-mail; the operator edits the
\* exam's negative marking and activity and adds, edits and deletes
\* questions, candidates and the exam while candidates start, answer and
\* submit.  The result mode stays at its default.
Next ==
    \/ \E neg \in NegativeMarkingInputs : CreateExam("q1", 0, neg, NULL, 1)
    \/ \E id \in ExamIds, neg \in NegativeMarkingInputs :
          UpdateExam(id, "q1", 30, neg, "admin_only", 1, 1)
    \/ \E id \in ExamIds : DeleteExam(id)
    \/ \E id \in ExamIds, question \in QuestionInputs :
          AddQuestion(id, question[1], question[2])
    \/ \E id \in QuestionIds, question \in QuestionInputs :
          UpdateQuestion(id, question[1], question[2])
    \/ \E id \in QuestionIds : DeleteQuestion(id)
    \/ \E id \in CandidateIds : DeleteCandidate(id)
    \/ Start(1, "A@x.io", "q1")
    \/ \E q \in QuestionIds, opt \in OptionInputs : Answer(1, q, opt)
    \/ Submit(1)

Spec == Init /\ [][Next]_vars

\* Starting, resuming and submitting attempts of one exam while the operator
\* switches prevent_duplicate_attempts and is_active and deletes candidates.
NextStart ==
    \/ \E prevent \in Flags : CreateExam("q1", 0, 0, NULL, prevent)
    \/ \E id \in ExamIds, prevent \in Flags :
          UpdateExam(id, "q1", 30, 0, "admin_only", prevent, 1)
    \/ \E id \in ExamIds : ToggleActive(id)
    \/ \E id \in ExamIds : AddQuestion(id, "a", 1)
    \/ \E id \in CandidateIds : DeleteCandidate(id)
    \/ \E email \in SameKeyEmails, code \in CodeInputs : Start(1, email, code)
    \/ Submit(1)
    \/ Tick

SpecStart == Init /\ [][NextStart]_vars

\* Two browsers taking a single-attempt exam whose questions are added but
\* never edited: both can hold the same session (the second one resumes
\* it), answer, re-answer and submit.
NextFlow ==
    \/ \E neg \in NegativeMarkingInputs : CreateExam("q1", 0, neg, NULL, 1)
    \/ \E question \in QuestionInputs : AddQuestion(1, question[1], question[2])
    \/ \E client \in Clients : Start(client, "a@x.io", "Q1")
    \/ \E client \in Clients, q \in QuestionIds, opt \in OptionInputs :
          Answer(client, q, opt)
    \/ \E client \in Clients : Submit(client)
    \/ Tick

SpecFlow == Init /\ [][NextFlow]_vars

\* Result requests while the operator changes result_mode, publishes and
\* unpublishes, and deletes the exam.
NextVisibility ==
    \/ \E mode \in ModeInputs : CreateExam("q1", 0, 0, mode, 1)
    \/ \E id \in ExamIds, mode \in ModeInputs :
          UpdateExam(id, "q1", 30, 0, mode, 1, 1)
    \/ \E id \in ExamIds : PublishResults(id)
    \/ \E id \in ExamIds : UnpublishResults(id)
    \/ \E id \in ExamIds : DeleteExam(id)
    \/ \E id \in ExamIds : AddQuestion(id, "a", 2)
    \/ \E email \in {"a@x.io", "ax.io", NULL} : Start(1, email, "q1")
    \/ \E q \in QuestionIds, opt \in OptionInputs : Answer(1, q, opt)
    \/ Submit(1)
    \/ \E token \in TokenInputs : Result(token)
    \/ \E code \in CodeInputs : Leaderboard(code)

SpecVisibility == Init /\ [][NextVisibility]_vars

\* Publication: one exam created in after_publish or admin_only mode, its
\* question added and deleted, one candidate, results published and
\* unpublished, the result requested.
NextPublish ==
    \/ \E mode \in {"after_publish", "admin_only"} : CreateExam("q1", 0, 0, mode, 1)
    \/ \E id \in ExamIds : PublishResults(id)
    \/ \E id \in ExamIds : UnpublishResults(id)
    \/ \E id \in ExamIds : AddQuestion(id, "a", 2)
    \/ \E id \in QuestionIds : DeleteQuestion(id)
    \/ Start(1, "a@x.io", "q1")
    \/ \E q \in QuestionIds, opt \in OptionInputs : Answer(1, q, opt)
    \/ Submit(1)
    \/ \E token \in TokenInputs : Result(token)

SpecPublish == Init /\ [][NextPublish]_vars

\* the address each client types in the leaderboard specifications
EmailOf(client) == IF client = 1 THEN "a@x.io" ELSE "b@x.io"

\* Ranking: one public exam, two candidates with an address each, right
\* answers, submits at different times.
NextRanking ==
    \/ CreateExam("q1", 0, 0, "public", 1)
    \/ \E id \in ExamIds : AddQuestion(id, "a", 2)
    \/ \E client \in Clients : Start(client, EmailOf(client), "q1")
    \/ \E client \in Clients, q \in QuestionIds : Answer(client, q, "a")
    \/ \E client \in Clients : Submit(client)
    \/ Tick
    \/ Leaderboard("Q1")

SpecRanking == Init /\ [][NextRanking]_vars

\* Leaderboard membership: two public exams, the first created with
\* questions, two candidates who may sit either exam, submitted and
\* unsubmitted sessions.
BoardCodes == {"q1", "q2"}

NextBoard ==
    \/ \E code \in BoardCodes : CreateExam(code, 0, 0, "public", 1)
    \/ AddQuestion(1, "a", 2)
    \/ \E client \in Clients, code \in BoardCodes :
          Start(client, EmailOf(client), code)
    \/ \E client \in Clients, q \in QuestionIds : Answer(client, q, "a")
    \/ \E client \in Clients : Submit(client)
    \/ \E code \in BoardCodes : Leaderboard(code)

SpecBoard == Init /\ [][NextBoard]_vars

\* Requests served at the same time: one exam with one question, two clients
\* typing the same address, the handlers advancing one store call a step.
NextConcurrent ==
    \/ CreateExam("q1", 0, 0, NULL, 1)
    \/ AddQuestion(1, "a", 1)
    \/ \E client \in Clients : StartSelectExam(client, "a@x.io", "q1")
    \/ \E client \in Clients : StartSelectDuplicate(client)
    \/ \E client \in Clients : StartSelectOngoing(client)
    \/ \E client \in Clients : StartSelectTotal(client)
    \/ \E client \in Clients : StartInsert(client)
    \/ \E client \in Clients : StartSelectByToken(client)
    \/ \E client \in Clients, q \in QuestionIds, opt \in {"a", "B"} :
          AnswerSelectCandidate(client, q, opt)
    \/ \E client \in Clients : AnswerSelectQuestion(client)
    \/ \E client \in Clients : AnswerSelectExam(client)
    \/ \E client \in Clients : AnswerSelectExisting(client)
    \/ \E client \in Clients : AnswerUpdate(client)
    \/ \E client \in Clients : AnswerInsert(client)
    \/ \E client \in Clients : SubmitSelectCandidate(client)
    \/ \E client \in Clients : SubmitSelectScore(client)
    \/ \E client \in Clients : SubmitUpdate(client)

SpecConcurrent == Init /\ [][NextConcurrent]_vars

\* Session rows over time: one exam, its questions added, edited and
\* deleted, one candidate starting, resuming, answering and submitting while
\* the clock advances.
NextFrame ==
    \/ CreateExam("q1", 0, 0, NULL, 1)
    \/ UpdateExam(1, "q1", 30, 1, "public", 1, 1)
    \/ AddQuestion(1, "a", 2)
    \/ \E id \in QuestionIds : UpdateQuestion(id, "B", 1)
    \/ \E id \in QuestionIds : DeleteQuestion(id)
    \/ Start(1, "a@x.io", "q1")
    \/ \E q \in QuestionIds, opt \in {"a", "B"} : Answer(1, q, opt)
    \/ Submit(1)
    \/ Tick

SpecFrame == Init /\ [][NextFrame]_vars

\* One exam of one minute with negative marking, its duration edited to none
\* or to two minutes, and one client that starts, fetches the paper, answers
\* and submits while the clock advances.
NextTime ==
    \/ CreateExam("q1", 1, 1, NULL, 1)
    \/ \E duration \in {0, 2} : UpdateExam(1, "q1", duration, 1, "admin_only", 1, 1)
    \/ AddQuestion(1, "a", 2)
    \/ Start(1, "a@x.io", "q1")
    \/ Questions(1)
    \/ \E q \in QuestionIds, opt \in OptionInputs : Answer(1, q, opt)
    \/ Submit(1)
    \/ Tick

SpecTime == Init /\ [][NextTime]_vars

ExamCodeInputs == {"q1", "Q1", "q2"}

\* Two exam codes in either case: the operator creates, renames and deletes
\* exams and adds questions under any exam id, while one client starts,
\* answers any question id and submits.
NextCodes ==
    \/ \E code \in ExamCodeInputs : CreateExam(code, 0, 0, NULL, 1)
    \/ \E id \in ExamIds, code \in ExamCodeInputs :
          UpdateExam(id, code, 30, 0, "admin_only", 1, 1)
    \/ \E id \in ExamIds : DeleteExam(id)
    \/ \E id \in ExamIds : AddQuestion(id, "a", 1)
    \/ \E code \in BoardCodes : Start(1, "a@x.io", code)
    \/ \E q \in 1..(MaxQuestions + 1) : Answer(1, q, "a")
    \/ Submit(1)

SpecCodes == Init /\ [][NextCodes]_vars

\* Sessions that end: two clients share one e-mail address, so that one
\* resumes the session of the other and keeps its cookie when the other
\* submits, and the operator deletes sessions; every route of
\* routes/exam.js is called.
NextSession ==
    \/ CreateExam("q1", 0, 1, "public", 1)
    \/ AddQuestion(1, "a", 2)
    \/ \E id \in CandidateIds : DeleteCandidate(id)
    \/ \E client \in Clients : Start(client, "a@x.io", "q1")
    \/ \E client \in Clients : Questions(client)
    \/ \E client \in Clients, q \in QuestionIds : Answer(client, q, "a")
    \/ \E client \in Clients : Submit(client)
    \/ \E token \in TokenInputs : Result(token)
    \/ Leaderboard("q1")

SpecSession == Init /\ [][NextSession]_vars

\* Percentages: a public exam that allows repeated attempts, whose question
\* is added before or after a session starts and is worth 3 marks, then
\* edited to 2, so that a session scores two thirds of its total_marks, or
\* scores against a total_marks of 0.
NextPercent ==
    \/ CreateExam("q1", 0, 0, "public", 0)
    \/ AddQuestion(1, "a", 3)
    \/ \E id \in QuestionIds : UpdateQuestion(id, "a", 2)
    \/ Start(1, "a@x.io", "q1")
    \/ \E q \in QuestionIds : Answer(1, q, "a")
    \/ Submit(1)
    \/ \E token \in {NewToken(1), NewToken(2)} : Result(token)
    \/ Leaderboard("q1")

SpecPercent == Init /\ [][NextPercent]_vars

\* The candidate's operations over an exam that prevents repeated attempts
\* or allows them: one client starts, answers, submits, starts again and
\* reads the result and the leaderboard.
NextStatic ==
    \/ \E prevent \in Flags : CreateExam("q1", 0, 1, "public", prevent)
    \/ AddQuestion(1, "a", 2)
    \/ Start(1, "a@x.io", "q1")
    \/ \E q \in QuestionIds, opt \in {"a", "B"} : Answer(1, q, opt)
    \/ Submit(1)
    \/ \E token \in {NewToken(1), NewToken(2)} : Result(token)
    \/ Leaderboard("q1")

SpecStatic == Init /\ [][NextStatic]_vars

\* The static API alone: the operator's exam allows repeated attempts or
\* prevents them, and one page starts, answers and submits.
NextStaticApi ==
    \/ \E prevent \in Flags : CreateExam("q1", 0, 1, "public", prevent)
    \/ AddQuestion(1, "a", 2)
    \/ StaticStart(1, "a@x.io", "q1")
    \/ \E q \in QuestionIds, opt \in {"a", "B"} : StaticAnswer(1, q, opt)
    \/ StaticSubmit(1)

SpecStaticApi == Init /\ [][NextStaticApi]_vars

\* Repeated attempts: the exam is created without duplicate prevention, the
\* operator edits prevent_duplicate_attempts and is_active and toggles
\* is_active, and one client starts under either spelling of its address,
\* answers and submits.
NextRestart ==
    \/ CreateExam("q1", 0, 0, NULL, 0)
    \/ \E prevent \in Flags, active \in Flags :
          UpdateExam(1, "q1", 30, 0, "admin_only", prevent, active)
    \/ ToggleActive(1)
    \/ AddQuestion(1, "a", 1)
    \/ \E email \in SameKeyEmails : Start(1, email, "q1")
    \/ \E q \in QuestionIds : Answer(1, q, "a")
    \/ Submit(1)

SpecRestart == Init /\ [][NextRestart]_vars

\* Running out of time: a public exam of one minute created without
\* duplicate prevention, the operator editing prevent_duplicate_attempts and
\* toggling is_active, one client starting and submitting repeated
\* attempts, the leaderboard read, and the clock advancing.
NextTimeout ==
    \/ CreateExam("q1", 1, 0, "public", 0)
    \/ \E prevent \in Flags : UpdateExam(1, "q1", 1, 0, "public", prevent, 1)
    \/ ToggleActive(1)
    \/ AddQuestion(1, "a", 1)
    \/ Start(1, "a@x.io", "q1")
    \/ Submit(1)
    \/ Leaderboard("q1")
    \/ Tick

SpecTimeout == Init /\ [][NextTimeout]_vars

\* Deactivation: one exam with negative marking that the operator switches
\* off and on while one client starts, answers rightly and wrongly, and
\* submits.
NextDeactivate ==
    \/ CreateExam("q1", 0, 1, NULL, 1)
    \/ ToggleActive(1)
    \/ AddQuestion(1, "a", 2)
    \/ Start(1, "a@x.io", "q1")
    \/ \E q \in QuestionIds, opt \in {"a", "B"} : Answer(1, q, opt)
    \/ Submit(1)

SpecDeactivate == Init /\ [][NextDeactivate]_vars

\* Logins: one address trying the default account's and wrong credentials,
\* another address trying a wrong password, while the clock advances five
\* minutes at a time.
NextLogin ==
    \/ \E username \in UsernameInputs, password \in PasswordInputs :
          Login("10.0.0.1", username, password)
    \/ Login("10.0.0.2", "admin", "guess")
    \/ Wait(5)

SpecLogin == Init /\ [][NextLogin]_vars

\* ================================================================ claims
\* the step is a successful POST /exam/answer of this client
AnswerSaved(client, q, opt) ==
    /\ res'.route = "answer"
    /\ res'.status = 200
    /\ Answer(client, q, opt)

\* max(0, sum of marks_obtained over the rows the session has now)
ClampedSum(c) ==
    LET total == SumMarksObtained(ResponsesOf(c))
    IN IF total < 0 THEN 0 ELSE total

ScoreMatchesRows(c) == candidates[c].score = <<ClampedSum(c)>>

\* C1 as stated: in every reachable state every submitted session's score
\* equals max(0, sum of marks_obtained over the response rows it has now).
C1_ScoreEqualsCurrentSum ==
    \A c \in DOMAIN candidates :
        candidates[c].is_submitted = 1 => ScoreMatchesRows(c)

\* C1 amended: a successful submit stores max(0, sum of marks_obtained over
\* the session's rows), and every later step that leaves the session's rows
\* alone keeps the score equal to it; only a deletion of rows (a question of
\* the exam deleted after the submit) separates the two.
C1_ScoreSetAtSubmit ==
    [][\A c \in DOMAIN candidates \cap DOMAIN candidates' :
          ( /\ candidates'[c].is_submitted = 1
            /\ candidates[c].is_submitted = 1 => ScoreMatchesRows(c)
            /\ ResponsesOf(c)' = ResponsesOf(c) )
          => ScoreMatchesRows(c)']_vars

\* a session was just submitted whose rows sum below zero and scored 0
C1_Witness ==
    /\ sql = "UPDATE candidates"
    /\ \E c \in DOMAIN candidates :
          /\ candidates[c].is_submitted = 1
          /\ SumMarksObtained(ResponsesOf(c)) < 0
          /\ candidates[c].score = <<0>>

\* a start call addressed to the exam and e-mail key of session c
StartFor(c, client, email, code) ==
    /\ res'.route = "start"
    /\ candidates[c].exam_id \in DOMAIN exams
    /\ exams[candidates[c].exam_id].exam_code = ToUpperCase(code)
    /\ candidates[c].email = ToLowerCase(email)
    /\ Start(client, email, code)

\* the reply resumes session c and no candidate row was created or changed
Resumed(c) ==
    /\ res'.status = 200
    /\ res'.sessionToken = candidates[c].session_token
    /\ res'.startTime = candidates[c].start_time
    /\ candidates' = candidates
    /\ lastCandidateId' = lastCandidateId

\* C2 as stated: any start call for the (exam, email) of a session that was
\* started and is not yet submitted returns that session's token, creates
\* no candidate row and leaves start_time, session_token and total_marks
\* of the row unchanged.
C2_StartAlwaysResumes ==
    [][\A client \in Clients, email \in EmailInputs, code \in CodeInputs :
          \A c \in DOMAIN candidates :
             (candidates[c].is_submitted = 0 /\ StartFor(c, client, email, code))
             => Resumed(c)]_vars

\* C2 amended: the same, provided the exam is still active and the
\* duplicate-attempt check does not apply (prevent_duplicate_attempts unset
\* or no submitted session for the key) when the second call is handled.
C2_StartResumes ==
    [][\A client \in Clients, email \in EmailInputs, code \in CodeInputs :
          \A c \in DOMAIN candidates :
             ( /\ candidates[c].is_submitted = 0
               /\ StartFor(c, client, email, code)
               /\ exams[candidates[c].exam_id].is_active = 1
               /\ \/ exams[candidates[c].exam_id].prevent_duplicate_attempts = 0
                  \/ CandidatesFor(candidates[c].exam_id,
                                   candidates[c].email, 1) = {} )
             => Resumed(c)]_vars

\* a start call has just resumed a session that was started earlier
C2_Witness ==
    /\ res.route = "start"
    /\ res.status = 200
    /\ sql = ""
    /\ res.startTime < now
    /\ \E c \in DOMAIN candidates :
          /\ candidates[c].session_token = res.sessionToken
          /\ candidates[c].is_submitted = 0

\* the reply is the duplicate-attempt error and no session was touched
DuplicateRefused ==
    /\ res'.status = 400
    /\ res'.message = "You have already taken this exam"
    /\ candidates' = candidates
    /\ lastCandidateId' = lastCandidateId
    /\ session' = session

\* C3 as stated: with prevent_duplicate_attempts set and a submitted session
\* for (exam, lowercase email), every start call for that key fails with the
\* duplicate-attempt error and creates or modifies no session, whether or
\* not an unsubmitted session of the key exists.
C3_DuplicateAlwaysRefused ==
    [][\A client \in Clients, email \in EmailInputs, code \in CodeInputs :
          \A c \in DOMAIN candidates :
             ( /\ candidates[c].is_submitted = 1
               /\ StartFor(c, client, email, code)
               /\ exams[candidates[c].exam_id].prevent_duplicate_attempts = 1 )
             => DuplicateRefused]_vars

\* C3 amended: the same for an exam that is active; a start call for an
\* inactive exam fails with the invalid-exam error instead, also creating
\* and modifying nothing.
C3_DuplicateRefusedWhenActive ==
    [][\A client \in Clients, email \in EmailInputs, code \in CodeInputs :
          \A c \in DOMAIN candidates :
             ( /\ candidates[c].is_submitted = 1
               /\ StartFor(c, client, email, code)
               /\ exams[candidates[c].exam_id].prevent_duplicate_attempts = 1
               /\ exams[candidates[c].exam_id].is_active = 1 )
             => DuplicateRefused]_vars

\* a start call was just refused as a duplicate although an unsubmitted
\* session of the same key exists beside the submitted one
C3_Witness ==
    /\ res.route = "start"
    /\ res.status = 400
    /\ res.message = "You have already taken this exam"
    /\ \E c1, c2 \in DOMAIN candidates :
          /\ candidates[c1].is_submitted = 1
          /\ candidates[c2].is_submitted = 0
          /\ candidates[c1].email = candidates[c2].email
          /\ candidates[c1].exam_id = candidates[c2].exam_id

\* C4: there is never more than one response row per (session, question),
\* and after a successful answer call the pair's single row holds that
\* call's selected_option, is_correct and marks_obtained.
C4_OneRowPerPair ==
    [][ /\ \A r1, r2 \in responses' :
              ( /\ r1.candidate_id = r2.candidate_id
                /\ r1.question_id = r2.question_id ) => r1 = r2
        /\ \A client \in Clients, q \in QuestionIds, opt \in OptionInputs :
              AnswerSaved(client, q, opt) =>
                 LET c == session[client]
                     rows == {r \in responses' : /\ r.candidate_id = c
                                                 /\ r.question_id = q}
                 IN \E r \in rows :
                       /\ rows = {r}
                       /\ r.selected_option = opt
                       /\ r.is_correct =
                             IF IsCorrect(opt, questions[q]) THEN 1 ELSE 0
                       /\ r.marks_obtained =
                             MarksObtained(opt, questions[q],
                                           exams[candidates[c].exam_id])
      ]_vars

\* an answer call has just overwritten the row of a pair answered before
C4_Witness ==
    /\ sql = "UPDATE responses"
    /\ res = [route |-> "answer", status |-> 200, success |-> TRUE]
    /\ responses # {}

\* C5: a successful answer call writes marks_obtained 0 for no option,
\* question.marks for the correct option (compared in upper case), minus the
\* exam's negative_marking (not scaled by the question's marks) for a wrong
\* option when negative_marking > 0 and 0 when it is 0; is_correct is 1
\* exactly for the correct option.
C5_MarksWritten ==
    [][\A client \in Clients, q \in QuestionIds, opt \in OptionInputs :
          AnswerSaved(client, q, opt) =>
             LET c == session[client]
                 neg == exams[candidates[c].exam_id].negative_marking
                 upper == CASE opt = "a" -> "A" [] opt = "b" -> "B" [] OTHER -> opt
                 right == opt # NULL /\ upper = questions[q].correct_option
             IN \A r \in responses' :
                   (r.candidate_id = c /\ r.question_id = q) =>
                      /\ r.is_correct = IF right THEN 1 ELSE 0
                      /\ r.marks_obtained =
                            IF opt = NULL THEN 0
                            ELSE IF right THEN questions[q].marks
                            ELSE IF neg > 0 THEN 0 - neg
                            ELSE 0
      ]_vars

\* a wrong answer to a 2-mark question was just graded with the flat penalty
C5_Witness ==
    /\ res = [route |-> "answer", status |-> 200, success |-> TRUE]
    /\ sql # ""
    /\ \E r \in responses :
          /\ r.question_id \in DOMAIN questions
          /\ questions[r.question_id].marks = 2
          /\ r.selected_option # NULL
          /\ r.is_correct = 0
          /\ r.marks_obtained = 0 - 1

\* C6 as stated: whenever an exam's current negative_marking is 0, no
\* response row of a session of that exam has marks_obtained < 0.
C6_NoNegativeRowsNow ==
    \A r \in responses :
        ( /\ r.candidate_id \in DOMAIN candidates
          /\ exams[candidates[r.candidate_id].exam_id].negative_marking = 0 )
        => r.marks_obtained >= 0

\* C6 amended: an answer call handled while the exam's negative_marking is 0
\* writes a row with marks_obtained >= 0 (question marks being positive);
\* rows graded earlier under a positive negative_marking keep their penalty
\* when the operator sets it to 0, because rows are never re-graded.
C6_NoPenaltyWrittenAtZero ==
    [][\A client \in Clients, q \in QuestionIds, opt \in OptionInputs :
          ( /\ AnswerSaved(client, q, opt)
            /\ exams[candidates[session[client]].exam_id].negative_marking = 0 )
          => \A r \in responses' :
                ( /\ r.candidate_id = session[client]
                  /\ r.question_id = q ) => r.marks_obtained >= 0
      ]_vars

\* a wrong answer was just graded 0 because negative_marking is 0
C6_Witness ==
    /\ res = [route |-> "answer", status |-> 200, success |-> TRUE]
    /\ sql # ""
    /\ \E r \in responses :
          /\ r.candidate_id \in DOMAIN candidates
          /\ exams[candidates[r.candidate_id].exam_id].negative_marking = 0
          /\ r.selected_option # NULL
          /\ r.is_correct = 0
          /\ r.marks_obtained = 0

\* the marks the grading rule gives a selection
ClaimedMarks(opt, question, neg) ==
    LET upper == CASE opt = "a" -> "A" [] opt = "b" -> "B" [] OTHER -> opt
    IN IF opt = NULL THEN 0
       ELSE IF upper = question.correct_option THEN question.marks
       ELSE IF neg > 0 THEN 0 - neg
       ELSE 0

RECURSIVE SumOfSelections(_)
\* the sum, over a set of response rows, of the marks the grading rule gives
\* the selection each row records
SumOfSelections(S) ==
    IF S = {} THEN 0
    ELSE LET r == CHOOSE x \in S : TRUE
         IN ClaimedMarks(r.selected_option, questions[r.question_id],
                exams[candidates[r.candidate_id].exam_id].negative_marking)
            + SumOfSelections(S \ {r})

ScoreOfSelections(c) ==
    LET total == SumOfSelections(ResponsesOf(c))
    IN IF total < 0 THEN 0 ELSE total

\* C7: with exam and questions unchanged, a session's rows record exactly
\* the last selection answered for each question (an answer replaces the
\* selection of its own pair and touches no other row), and the score
\* stored by finalize is max(0, sum over those last selections of the marks
\* the grading rule gives them): it is a function of the final selections
\* only, so a wrong answer changed to the correct one counts question.marks
\* and no penalty.
C7_ScoreFromFinalSelections ==
    [][ /\ \A client \in Clients, q \in QuestionIds, opt \in OptionInputs :
              AnswerSaved(client, q, opt) =>
                 LET mine(r) == /\ r.candidate_id = session[client]
                                /\ r.question_id = q
                 IN /\ \A r \in responses' : mine(r) => r.selected_option = opt
                    /\ {r \in responses' : ~mine(r)} = {r \in responses : ~mine(r)}
        /\ tables' # tables =>
              \A c \in DOMAIN candidates' :
                 candidates'[c].is_submitted = 1 =>
                    candidates'[c].score = <<ScoreOfSelections(c)'>>
      ]_vars

\* a session of an exam with negative marking, all of whose recorded
\* selections are correct and were saved after its start, has just been
\* submitted and scored the full marks of the exam
C7_Witness ==
    /\ sql = "UPDATE candidates"
    /\ \E c \in DOMAIN candidates :
          /\ candidates[c].is_submitted = 1
          /\ exams[candidates[c].exam_id].negative_marking = 1
          /\ ResponsesOf(c) # {}
          /\ \A r \in ResponsesOf(c) :
                /\ r.is_correct = 1
                /\ r.answered_at > candidates[c].start_time
          /\ candidates[c].score = <<SumMarks(QuestionsOfExam(candidates[c].exam_id))>>

\* C8: a submit call on a session that is already submitted fails and
\* leaves the session's score, end_time and is_submitted (the whole
\* candidates table) unchanged, whichever client sends it.
C8_SubmitOneShot ==
    [][\A client \in Clients :
          ( /\ res'.route = "submit"
            /\ session[client] \in DOMAIN candidates
            /\ candidates[session[client]].is_submitted = 1
            /\ Submit(client) )
          => /\ res'.status = 400
             /\ res'.success = FALSE
             /\ candidates' = candidates
             /\ responses' = responses]_vars

\* a browser still holding the session has just had its submit refused
\* after the session was submitted at an earlier time from another browser
C8_Witness ==
    /\ res.route = "submit"
    /\ res.status = 400
    /\ \E client \in Clients :
          /\ session[client] \in DOMAIN candidates
          /\ candidates[session[client]].is_submitted = 1
          /\ candidates[session[client]].end_time # <<now>>

\* the sessions a result request with this token addresses
SessionsOfToken(token) ==
    {c \in DOMAIN candidates : candidates[c].session_token = token}

\* C9: a result request for a session that is not submitted fails with the
\* not-submitted error and its reply has no score, total or percentage
\* field, whatever the exam's result_mode and results_published are.
C9_NoResultBeforeSubmit ==
    [][\A token \in TokenInputs :
          ( /\ res'.route = "result"
            /\ \E c \in SessionsOfToken(token) : candidates[c].is_submitted = 0
            /\ Result(token) )
          => /\ res'.status = 400
             /\ res'.success = FALSE
             /\ res'.message = "Exam not yet submitted"
             /\ DOMAIN res' \cap {"score", "totalMarks", "percentage"} = {}
      ]_vars

\* the result of an unsubmitted session was just refused although the
\* exam's results are published
C9_Witness ==
    /\ res.route = "result"
    /\ res.status = 400
    /\ \E c \in DOMAIN candidates :
          /\ candidates[c].is_submitted = 0
          /\ candidates[c].exam_id \in DOMAIN exams
          /\ exams[candidates[c].exam_id].result_mode = "after_publish"
          /\ exams[candidates[c].exam_id].results_published = 1

\* C10: for a submitted session the result request returns canView = true
\* exactly when the exam's current result_mode is private or public, or is
\* after_publish with results_published currently 1; admin_only and any
\* other mode give canView = false.
C10_CanViewByCurrentFlags ==
    [][\A token \in TokenInputs :
          ( /\ res'.route = "result"
            /\ \E c \in SessionsOfToken(token) : candidates[c].is_submitted = 1
            /\ Result(token) )
          => \A c \in SessionsOfToken(token) :
                LET mode == exams[candidates[c].exam_id].result_mode
                    published == exams[candidates[c].exam_id].results_published
                IN /\ res'.status = 200
                   /\ res'.canView =
                         ( \/ mode \in {"private", "public"}
                           \/ mode = "after_publish" /\ published = 1 )
                   /\ res'.canView <=> "score" \in DOMAIN res'
      ]_vars

\* a submitted session's result was just withheld in after_publish mode
\* because the results are not (or no longer) published
C10_Witness ==
    /\ res.route = "result"
    /\ res.status = 200
    /\ res.canView = FALSE
    /\ res.message = "Results will be published by the administrator"
    /\ \E c \in DOMAIN candidates :
          /\ candidates[c].is_submitted = 1
          /\ exams[candidates[c].exam_id].result_mode = "after_publish"
          /\ exams[candidates[c].exam_id].results_published = 0

\* C11: a publish-results or unpublish-results request changes nothing but
\* results_published of the exam it names: every candidate row (score,
\* total_marks, end_time, is_submitted), every response row and every
\* question stay as they were, and after a publish the result request of
\* each submitted session of an after_publish exam shows the score and
\* total_marks the session had before.
C11_PublishChangesOnlyFlag ==
    [][\A id \in ExamIds :
          ( /\ res'.route = "api"
            /\ PublishResults(id) \/ UnpublishResults(id) )
          => /\ candidates' = candidates
             /\ responses' = responses
             /\ questions' = questions
             /\ DOMAIN exams' = DOMAIN exams
             /\ \A e \in DOMAIN exams :
                   /\ [exams'[e] EXCEPT !.results_published =
                          exams[e].results_published] = exams[e]
                   /\ e # id => exams'[e] = exams[e]
             /\ \A c \in DOMAIN candidates :
                   ( /\ PublishResults(id)
                     /\ candidates[c].exam_id = id
                     /\ id \in DOMAIN exams
                     /\ exams[id].result_mode = "after_publish"
                     /\ candidates[c].is_submitted = 1 )
                   => LET reply == ResultReply(candidates[c].session_token)'
                      IN /\ reply.canView = TRUE
                         /\ reply.score = candidates[c].score
                         /\ reply.totalMarks = candidates[c].total_marks
      ]_vars

\* the result of a submitted session of a published after_publish exam was
\* just shown with the score stored at submit
C11_Witness ==
    /\ res.route = "result"
    /\ res.status = 200
    /\ res.canView = TRUE
    /\ \E c \in DOMAIN candidates :
          /\ candidates[c].is_submitted = 1
          /\ candidates[c].exam_id \in DOMAIN exams
          /\ exams[candidates[c].exam_id].result_mode = "after_publish"
          /\ exams[candidates[c].exam_id].results_published = 1
          /\ res.score = candidates[c].score
          /\ res.score = <<2>>
          /\ res.totalMarks = candidates[c].total_marks

\* the values a session's score column may hold
ScoreValues == {None} \cup {<<v>> : v \in 0..2}

\* the candidates tables that differ from the current one at most in the
\* scores of the sessions of exam e
ScoreVariants(e) ==
    {[c \in DOMAIN candidates |->
         IF candidates[c].exam_id = e
         THEN [candidates[c] EXCEPT !.score = f[c]]
         ELSE candidates[c]] : f \in [DOMAIN candidates -> ScoreValues]}

\* C12: while an exam is in admin_only mode the result and leaderboard
\* requests reveal nothing about scores: whatever scores the exam's sessions
\* hold instead of the current ones, the leaderboard request for the exam has
\* the same replies and the result request of each of its sessions has the
\* same reply (neither request reads the responses table).
C12_AdminOnlyRevealsNothing ==
    \A e \in DOMAIN exams :
       exams[e].result_mode = "admin_only"
       => \A varied \in ScoreVariants(e) :
             /\ \A code \in CodeInputs :
                   ToUpperCase(code) = exams[e].exam_code
                   => LeaderboardReplies(exams, varied, code)
                         = LeaderboardReplies(exams, candidates, code)
             /\ \A c \in DOMAIN candidates :
                   candidates[c].exam_id = e
                   => LET reply == ResultReply(candidates[c].session_token)
                      IN IF candidates[c].is_submitted = 0
                         THEN reply = [route |-> "result", status |-> 400,
                                       success |-> FALSE,
                                       message |-> "Exam not yet submitted"]
                         ELSE reply = ResultBody(varied[c], exams[e])

\* the leaderboard of an admin_only exam with a submitted session that
\* scored 2 was just requested and refused
C12_Witness ==
    /\ res.route = "leaderboard"
    /\ res.status = 403
    /\ \E c \in DOMAIN candidates :
          /\ candidates[c].is_submitted = 1
          /\ candidates[c].score = <<2>>
          /\ candidates[c].exam_id \in DOMAIN exams
          /\ exams[candidates[c].exam_id].result_mode = "admin_only"
          /\ ResultReply(candidates[c].session_token).canView = FALSE

\* C13: the leaderboard request for an existing exam succeeds exactly when
\* the exam's current result_mode is public, or after_publish with
\* results_published set; in every other case (private, admin_only,
\* after_publish unpublished, an unrecognised mode) its only reply is the 403
\* "Leaderboard not available for this exam", which carries no leaderboard.
C13_LeaderboardOnlyWhenOpen ==
    /\ \A e \in DOMAIN exams, code \in CodeInputs :
          ToUpperCase(code) = exams[e].exam_code
          => LET open == \/ exams[e].result_mode = "public"
                         \/ /\ exams[e].result_mode = "after_publish"
                            /\ exams[e].results_published = 1
                 replies == LeaderboardReplies(exams, candidates, code)
             IN /\ replies # {}
                /\ open => \A r \in replies :
                              /\ r.status = 200
                              /\ r.success = TRUE
                              /\ "leaderboard" \in DOMAIN r
                /\ ~open => replies =
                              {[route |-> "leaderboard", status |-> 403,
                                success |-> FALSE,
                                message |->
                                    "Leaderboard not available for this exam"]}
    /\ (res.route = "leaderboard" /\ res.success = TRUE)
       => \E e \in DOMAIN exams :
             \/ exams[e].result_mode = "public"
             \/ /\ exams[e].result_mode = "after_publish"
                /\ exams[e].results_published = 1

\* the leaderboard of an after_publish exam that has a submitted session and
\* is not published was just refused
C13_Witness ==
    /\ res.route = "leaderboard"
    /\ res.status = 403
    /\ res.message = "Leaderboard not available for this exam"
    /\ \E c \in DOMAIN candidates :
          /\ candidates[c].is_submitted = 1
          /\ candidates[c].exam_id \in DOMAIN exams
          /\ exams[candidates[c].exam_id].result_mode = "after_publish"
          /\ exams[candidates[c].exam_id].results_published = 0

\* C14: in every leaderboard reply with N entries the ranks are 1..N in
\* output order, scores are non-increasing down the list, and the entries
\* describe the exam's submitted sessions in an order in which, among
\* sessions with equal score, end_time is non-decreasing.
C14_RanksAndOrder ==
    \A e \in DOMAIN exams, code \in CodeInputs :
       ToUpperCase(code) = exams[e].exam_code
       => \A r \in LeaderboardReplies(exams, candidates, code) :
             r.status = 200
             => LET L == r.leaderboard
                    N == Len(L)
                    S == {c \in DOMAIN candidates :
                             /\ candidates[c].exam_id = e
                             /\ candidates[c].is_submitted = 1}
                IN /\ \A i \in 1..N : L[i].rank = i
                   /\ \A i, j \in 1..N :
                         i < j => L[i].score[1] >= L[j].score[1]
                   /\ \E s \in Orderings(S) :
                         /\ Len(s) = N
                         /\ \A i \in 1..N :
                               /\ L[i].name = candidates[s[i]].name
                               /\ L[i].score = candidates[s[i]].score
                         /\ \A i, j \in 1..N :
                               ( /\ i < j
                                 /\ L[i].score = L[j].score )
                               => candidates[s[i]].end_time[1]
                                     <= candidates[s[j]].end_time[1]

\* a leaderboard with two entries of equal score was just sent for an exam
\* whose two sessions ended at different times
C14_Witness ==
    /\ res.route = "leaderboard"
    /\ res.status = 200
    /\ Len(res.leaderboard) = 2
    /\ res.leaderboard[1].score = res.leaderboard[2].score
    /\ res.leaderboard[1].score = <<2>>
    /\ \E a, b \in DOMAIN candidates :
          /\ candidates[a].exam_id = candidates[b].exam_id
          /\ candidates[a].is_submitted = 1
          /\ candidates[b].is_submitted = 1
          /\ candidates[a].end_time # candidates[b].end_time

\* C15: a leaderboard reply for an exam has exactly one entry per submitted
\* session of that exam and no other entry: its entries can be matched one
\* to one with the exam's submitted sessions by name, score and total_marks,
\* so that no unsubmitted session and no session of another exam is listed.
C15_OneEntryPerSubmittedSession ==
    \A e \in DOMAIN exams, code \in BoardCodes :
       ToUpperCase(code) = exams[e].exam_code
       => \A r \in LeaderboardReplies(exams, candidates, code) :
             r.status = 200
             => LET L == r.leaderboard
                    S == {c \in DOMAIN candidates :
                             /\ candidates[c].exam_id = e
                             /\ candidates[c].is_submitted = 1}
                IN /\ Len(L) = Cardinality(S)
                   /\ \E s \in [1..Len(L) -> S] :
                         /\ \A c \in S : \E i \in 1..Len(L) : s[i] = c
                         /\ \A i \in 1..Len(L) :
                               /\ L[i].name = candidates[s[i]].name
                               /\ L[i].score = candidates[s[i]].score
                               /\ L[i].totalMarks = candidates[s[i]].total_marks

\* a leaderboard with one entry was just sent while the store holds a second
\* session that is not listed: unsubmitted, or of the other exam
C15_Witness ==
    /\ res.route = "leaderboard"
    /\ res.status = 200
    /\ Len(res.leaderboard) = 1
    /\ \E a, b \in DOMAIN candidates :
          /\ a # b
          /\ candidates[a].is_submitted = 1
          /\ res.leaderboard[1].name = candidates[a].name
          /\ \/ candidates[b].is_submitted = 0
             \/ candidates[b].exam_id # candidates[a].exam_id

CurrentTotal(examId) ==
    SumMarks({q \in DOMAIN questions : questions[q].exam_id = examId})

\* C19: a session's start_time and total_marks never change once the row
\* exists: a row created by a step gets start_time = the clock and
\* total_marks = the sum of the marks of the exam's questions at that
\* moment, and every step (start or resume, answer, submit, question add,
\* edit or delete, exam update) leaves both fields of every row it keeps.
C19_StartTimeAndTotalFrozen ==
    [][/\ \A c \in DOMAIN candidates \cap DOMAIN candidates' :
             /\ candidates'[c].start_time = candidates[c].start_time
             /\ candidates'[c].total_marks = candidates[c].total_marks
       /\ \A c \in DOMAIN candidates' \ DOMAIN candidates :
             /\ candidates'[c].start_time = now
             /\ candidates'[c].total_marks = CurrentTotal(candidates'[c].exam_id)
      ]_vars

\* a session was just resumed after the clock advanced and after the marks
\* of its exam's questions changed: the reply carries the start_time of its
\* creation and the row the total_marks of that moment
C19_Witness ==
    /\ res.route = "start"
    /\ res.status = 200
    /\ sql = ""
    /\ \E c \in DOMAIN candidates :
          /\ session[1] = c
          /\ res.startTime = candidates[c].start_time
          /\ candidates[c].start_time < now
          /\ candidates[c].total_marks # CurrentTotal(candidates[c].exam_id)
          /\ ResponsesOf(c) # {}

\* C20: the score of a session is written only by a successful submit of
\* that session: a row is created with a NULL score, a step that changes a
\* row's score is a submit replying 200 for the session in the client's
\* cookie, and an answer request, saved or refused, changes no candidates
\* row.
C20_ScoreWrittenOnlyBySubmit ==
    [][/\ \A c \in DOMAIN candidates' \ DOMAIN candidates :
             candidates'[c].score = None
       /\ \A c \in DOMAIN candidates \cap DOMAIN candidates' :
             candidates'[c].score # candidates[c].score
             => /\ res'.route = "submit"
                /\ res'.status = 200
                /\ candidates[c].is_submitted = 0
                /\ \E client \in Clients : /\ session[client] = c
                                           /\ Submit(client)
       /\ res'.route = "answer" => candidates' = candidates
      ]_vars

\* a session holds a submitted score that the rows it has now no longer
\* add up to, and an answer request was just refused for it
C20_Witness ==
    /\ res.route = "answer"
    /\ res.status # 200
    /\ \E c \in DOMAIN candidates :
          /\ candidates[c].is_submitted = 1
          /\ candidates[c].score = <<2>>
          /\ ResponsesOf(c) = {}

\* the session in the client's cookie is unsubmitted and its remaining time,
\* as GET /exam/questions computes it, is 0
Expired(client) ==
    /\ session[client] \in DOMAIN candidates
    /\ candidates[session[client]].is_submitted = 0
    /\ candidates[session[client]].exam_id \in DOMAIN exams
    /\ RemainingSeconds(candidates[session[client]],
                        exams[candidates[session[client]].exam_id]) = 0

\* C21: there is no server-side time cutoff. For an unsubmitted session
\* whose remaining time is 0, an answer naming a question of the session's
\* exam replies 200 and leaves the row of the pair with the selection and
\* the marks the grading rule gives it, and a submit replies 200, finalizes
\* the session and stores max(0, sum of marks_obtained over its rows), the
\* same score the rows would give before expiry.
C21_NoServerCutoff ==
    [][\A client \in Clients :
          Expired(client) =>
             LET c == session[client]
                 e == candidates[c].exam_id
             IN /\ \A q \in QuestionsOfExam(e), opt \in OptionInputs :
                      (res'.route = "answer" /\ Answer(client, q, opt))
                      => /\ res'.status = 200
                         /\ \E r \in responses' :
                               /\ r.candidate_id = c
                               /\ r.question_id = q
                               /\ r.selected_option = opt
                               /\ r.marks_obtained =
                                    ClaimedMarks(opt, questions[q],
                                                 exams[e].negative_marking)
                /\ (res'.route = "submit" /\ Submit(client))
                   => /\ res'.status = 200
                      /\ candidates'[c].is_submitted = 1
                      /\ candidates'[c].score = <<ClampedSum(c)>>
      ]_vars

\* a session started at minute 0 of a one-minute exam was submitted at
\* minute 1 with a correct answer saved at minute 1, and scored its marks
C21_Witness ==
    /\ res.route = "submit"
    /\ res.status = 200
    /\ \E c \in DOMAIN candidates :
          /\ candidates[c].is_submitted = 1
          /\ candidates[c].start_time = 0
          /\ candidates[c].end_time = <<1>>
          /\ exams[candidates[c].exam_id].duration_minutes = 1
          /\ candidates[c].score = <<2>>
          /\ \E r \in ResponsesOf(c) : r.answered_at = 1 /\ r.marks_obtained = 2

\* max(0, duration_minutes * 60 - whole seconds since start_time), one tick
\* of the clock being a minute
ClaimedRemaining(c, clock) ==
    LET total == exams[candidates[c].exam_id].duration_minutes * 60
        elapsed == (clock - candidates[c].start_time) * 60
    IN IF total - elapsed < 0 THEN 0 ELSE total - elapsed

\* C22: the remainingSeconds of a questions reply equals
\* max(0, duration_minutes * 60 - elapsed whole seconds since start_time):
\* it is never negative and is 0 once the elapsed time reaches the duration;
\* and while the exam's duration stays the same no step, a resume through
\* start included, increases the value a session would be given.
C22_RemainingSeconds ==
    [][/\ \A client \in Clients :
             (res'.route = "questions" /\ res'.status = 200 /\ Questions(client))
             => LET c == session[client]
                    total == exams[candidates[c].exam_id].duration_minutes * 60
                    elapsed == (now - candidates[c].start_time) * 60
                IN /\ res'.remainingSeconds = ClaimedRemaining(c, now)
                   /\ res'.remainingSeconds >= 0
                   /\ elapsed >= total => res'.remainingSeconds = 0
       /\ \A c \in DOMAIN candidates \cap DOMAIN candidates' :
             ( /\ candidates[c].exam_id \in DOMAIN exams \cap DOMAIN exams'
               /\ exams'[candidates[c].exam_id].duration_minutes
                    = exams[candidates[c].exam_id].duration_minutes )
             => /\ candidates'[c].exam_id = candidates[c].exam_id
                /\ ClaimedRemaining(c, now)' <= ClaimedRemaining(c, now)
      ]_vars

\* the paper was just fetched for a session a minute after it started, on
\* an exam whose duration was edited to none: the difference is negative
\* and the reply says 0
C22_Witness ==
    /\ res.route = "questions"
    /\ res.status = 200
    /\ res.remainingSeconds = 0
    /\ \E c \in DOMAIN candidates :
          /\ session[1] = c
          /\ candidates[c].start_time = 0
          /\ now = 1
          /\ exams[candidates[c].exam_id].duration_minutes = 0

\* C23: an answer call naming a question id that has no row, or whose row
\* belongs to another exam than the session's, fails and leaves the
\* responses table as it was; for a session that exists and is not
\* submitted the failure is 400 "Invalid question".
C23_InvalidQuestionRefused ==
    [][\A client \in Clients, q \in 1..(MaxQuestions + 1), opt \in OptionInputs :
          ( /\ res'.route = "answer"
            /\ \/ q \notin DOMAIN questions
               \/ /\ session[client] \in DOMAIN candidates
                  /\ questions[q].exam_id # candidates[session[client]].exam_id
            /\ Answer(client, q, opt) )
          => /\ res'.success = FALSE
             /\ responses' = responses
             /\ ( /\ session[client] \in DOMAIN candidates
                  /\ candidates[session[client]].is_submitted = 0 )
                => /\ res'.status = 400
                   /\ res'.message = "Invalid question"
      ]_vars

\* an unsubmitted session of one exam was just refused an answer to a
\* question that exists under the other exam
C23_Witness ==
    /\ res.route = "answer"
    /\ res.status = 400
    /\ res.message = "Invalid question"
    /\ \E c \in DOMAIN candidates, q \in DOMAIN questions :
          /\ session[1] = c
          /\ candidates[c].is_submitted = 0
          /\ questions[q].exam_id # candidates[c].exam_id
          /\ questions[q].exam_id \in DOMAIN exams

\* the routes of routes/exam.js
CandidateRoutes == {"start", "questions", "answer", "submit", "result", "leaderboard"}

\* C24: an answer call whose cookie names a session that is submitted or
\* has no row fails and leaves the responses table as it was; and, requests
\* being handled one at a time, no step of a candidate route changes the
\* response rows of a session that is submitted.
C24_SubmittedRowsFrozen ==
    [][res'.route \in CandidateRoutes =>
          /\ \A client \in Clients, q \in QuestionIds, opt \in OptionInputs :
                ( /\ res'.route = "answer"
                  /\ session[client] # 0
                  /\ \/ session[client] \notin DOMAIN candidates
                     \/ candidates[session[client]].is_submitted = 1
                  /\ Answer(client, q, opt) )
                => /\ res'.success = FALSE
                   /\ res'.status = 400
                   /\ responses' = responses
          /\ \A c \in DOMAIN candidates :
                candidates[c].is_submitted = 1
                => /\ c \in DOMAIN candidates'
                   /\ ResponsesOf(c)' = ResponsesOf(c)
      ]_vars

\* a client whose cookie still names a session that another client
\* submitted was just refused an answer, and the session keeps its row
C24_Witness ==
    /\ res.route = "answer"
    /\ res.status = 400
    /\ \E client \in Clients :
          /\ session[client] \in DOMAIN candidates
          /\ candidates[session[client]].is_submitted = 1
          /\ ResponsesOf(session[client]) # {}

\* no exam has the upper-cased code and is_active = 1
NoActiveExam(code) ==
    ~ \E e \in DOMAIN exams :
         /\ exams[e].is_active = 1
         /\ exams[e].exam_code =
              (CASE code = "q1" -> "Q1" [] code = "q2" -> "Q2" [] OTHER -> code)

\* C25: a start call whose exam code, upper-cased, matches no exam or only an
\* exam with is_active = 0 fails, creates no session and sets no cookie; with
\* a well-formed e-mail address the reply is 404, whatever sessions exist: an
\* unsubmitted session of the address is not resumed and a submitted one
\* does not turn the reply into the duplicate-attempt error.
C25_InactiveExamRefusesStart ==
    [][\A client \in Clients, email \in EmailInputs, code \in CodeInputs :
          ( /\ res'.route = "start"
            /\ NoActiveExam(code)
            /\ Start(client, email, code) )
          => /\ res'.success = FALSE
             /\ candidates' = candidates
             /\ lastCandidateId' = lastCandidateId
             /\ session' = session
             /\ email \in SameKeyEmails
                => /\ res'.status = 404
                   /\ res'.message = "Invalid exam code or exam is not active"
      ]_vars

\* a start call for a deactivated exam was just refused with 404 while an
\* unsubmitted session of the same address and exam exists
C25_Witness ==
    /\ res.route = "start"
    /\ res.status = 404
    /\ \E c \in DOMAIN candidates :
          /\ candidates[c].is_submitted = 0
          /\ candidates[c].email = "a@x.io"
          /\ candidates[c].exam_id \in DOMAIN exams
          /\ exams[candidates[c].exam_id].is_active = 0
          /\ exams[candidates[c].exam_id].exam_code = "Q1"

\* the exam code in upper case
UpperCode(code) == CASE code = "q1" -> "Q1" [] code = "q2" -> "Q2" [] OTHER -> code

\* C26: after every step no two exams have the same upper-cased exam code;
\* a create whose upper-cased code some exam has, and an update of an exam
\* to the upper-cased code of another exam, fail and leave the exams table
\* as it was.
C26_ExamCodesUnique ==
    [][/\ \A e1, e2 \in DOMAIN exams' :
             e1 # e2 => UpperCode(exams'[e1].exam_code) # UpperCode(exams'[e2].exam_code)
       /\ \A code \in ExamCodeInputs :
             ( /\ res'.route = "api"
               /\ \E e \in DOMAIN exams : UpperCode(exams[e].exam_code) = UpperCode(code)
               /\ CreateExam(code, 0, 0, NULL, 1) )
             => /\ res'.success = FALSE
                /\ exams' = exams
                /\ lastExamId' = lastExamId
       /\ \A id \in DOMAIN exams, code \in ExamCodeInputs :
             ( /\ res'.route = "api"
               /\ \E e \in DOMAIN exams \ {id} :
                     UpperCode(exams[e].exam_code) = UpperCode(code)
               /\ UpdateExam(id, code, 30, 0, "admin_only", 1, 1) )
             => /\ res'.success = FALSE
                /\ exams' = exams
      ]_vars

\* two exams exist under the two codes and the update of one to the code of
\* the other was just refused
C26_Witness ==
    /\ res.route = "api"
    /\ res.status = 500
    /\ \E e1, e2 \in DOMAIN exams :
          exams[e1].exam_code = "Q1" /\ exams[e2].exam_code = "Q2"

\* C27 as stated: in every reachable state every response row references an
\* existing session and an existing question of that session's exam, and
\* every session and every question references an existing exam.
C27_ReferentialIntegrity ==
    /\ \A r \in responses :
          /\ r.candidate_id \in DOMAIN candidates
          /\ r.question_id \in DOMAIN questions
          /\ questions[r.question_id].exam_id = candidates[r.candidate_id].exam_id
    /\ \A c \in DOMAIN candidates : candidates[c].exam_id \in DOMAIN exams
    /\ \A q \in DOMAIN questions : questions[q].exam_id \in DOMAIN exams

\* C28: finalization is one-way. After every step end_time is NULL exactly
\* for the sessions with is_submitted = 0, and a session that is submitted
\* and still has its row after the step is still submitted.
C28_FinalizeIsOneWay ==
    [][/\ \A c \in DOMAIN candidates' :
             (candidates'[c].is_submitted = 0) <=> (candidates'[c].end_time = <<>>)
       /\ \A c \in DOMAIN candidates \cap DOMAIN candidates' :
             candidates[c].is_submitted = 1 => candidates'[c].is_submitted = 1
      ]_vars

\* a session is submitted with an end_time, and a start call for its
\* address was just refused as a duplicate attempt
C28_Witness ==
    /\ res.route = "start"
    /\ res.status = 400
    /\ \E c \in DOMAIN candidates :
          /\ candidates[c].is_submitted = 1
          /\ candidates[c].end_time # <<>>
          /\ candidates[c].email = "a@x.io"

\* the entries of the reply just sent that carry a percentage: the body of
\* a visible result, or the rows of a leaderboard
PercentageEntries ==
    IF res.route = "result" /\ res.status = 200 /\ res.canView
    THEN {[score |-> res.score[1], totalMarks |-> res.totalMarks,
           percentage |-> res.percentage]}
    ELSE IF res.route = "leaderboard" /\ res.status = 200
    THEN {[score |-> res.leaderboard[i].score[1],
           totalMarks |-> res.leaderboard[i].totalMarks,
           percentage |-> res.leaderboard[i].percentage] :
             i \in 1..Len(res.leaderboard)}
    ELSE {}

\* C29 as stated: a reported percentage (held in hundredths of a percent)
\* is 0 when total_marks is 0 and otherwise is score * 100 / total_marks.
C29_PercentageIsQuotient ==
    \A entry \in PercentageEntries :
        IF entry.totalMarks = 0
        THEN entry.percentage = 0
        ELSE entry.percentage * entry.totalMarks = entry.score * 100 * 100

\* C29 amended: a reported percentage is 0 when total_marks is 0, with no
\* division, and otherwise is score * 100 / total_marks rounded to two
\* decimals: it differs from the quotient by at most half a hundredth.
C29_PercentageRounded ==
    \A entry \in PercentageEntries :
        IF entry.totalMarks = 0
        THEN entry.percentage = 0
        ELSE LET diff == entry.percentage * entry.totalMarks
                         - entry.score * 100 * 100
             IN /\ 2 * diff <= entry.totalMarks
                /\ 2 * (0 - diff) <= entry.totalMarks

\* a leaderboard was just sent with an entry of score 2 and total_marks 0
\* reporting 0, and an entry of score 2 and total_marks 2 reporting 100.00
C29_Witness ==
    /\ res.route = "leaderboard"
    /\ res.status = 200
    /\ \E i, j \in 1..Len(res.leaderboard) :
          /\ res.leaderboard[i].totalMarks = 0
          /\ res.leaderboard[i].score = <<2>>
          /\ res.leaderboard[i].percentage = 0
          /\ res.leaderboard[j].totalMarks = 2
          /\ res.leaderboard[j].score = <<2>>
          /\ res.leaderboard[j].percentage = 100 * 100

\* the session token the page of a client passes to the static API: the
\* token of the session its last start returned; once that session is
\* submitted the server has cleared the cookie and both calls fail
TokenOfClient(client) ==
    IF session[client] \in DOMAIN candidates
    THEN candidates[session[client]].session_token
    ELSE 0

\* a stored score as a number; the NULL of a session not yet submitted is
\* taken to agree with the 0 the static store holds for it
StoredScore(row) == IF row.score = <<>> THEN 0 ELSE row.score[1]

\* the two candidates collections hold the same sessions with the same
\* score, total_marks and is_submitted
SessionsAgree(staticCandidates, serverCandidates) ==
    /\ DOMAIN staticCandidates = DOMAIN serverCandidates
    /\ \A c \in DOMAIN staticCandidates \cap DOMAIN serverCandidates :
          /\ StoredScore(staticCandidates[c]) = StoredScore(serverCandidates[c])
          /\ staticCandidates[c].total_marks = serverCandidates[c].total_marks
          /\ staticCandidates[c].is_submitted = serverCandidates[c].is_submitted

\* the two responses collections hold the same marks for the same pairs
MarksAgree(staticResponses, serverResponses) ==
    {<<r.candidate_id, r.question_id, r.marks_obtained>> : r \in staticResponses}
    = {<<r.candidate_id, r.question_id, r.marks_obtained>> : r \in serverResponses}

RestartAllowed(e, email, code) ==
    /\ exams[e].exam_code = UpperCode(code)
    /\ exams[e].prevent_duplicate_attempts = 0
    /\ \A c \in DOMAIN candidates :
          ( /\ candidates[c].exam_id = e
            /\ candidates[c].email = (IF email = "A@x.io" THEN "a@x.io" ELSE email) )
          => candidates[c].is_submitted = 1

\* the step created one session for exam e: its token is held by no
\* earlier row, its total_marks is the sum of the marks of the exam's
\* questions now, it has no response, and every earlier row and every
\* response is as before
CreatedSession(e) ==
    /\ res'.status = 200
    /\ lastCandidateId' = lastCandidateId + 1
    /\ DOMAIN candidates' = DOMAIN candidates \cup {lastCandidateId'}
    /\ lastCandidateId' \notin DOMAIN candidates
    /\ candidates'[lastCandidateId'].exam_id = e
    /\ candidates'[lastCandidateId'].is_submitted = 0
    /\ candidates'[lastCandidateId'].total_marks = CurrentTotal(e)
    /\ res'.sessionToken = candidates'[lastCandidateId'].session_token
    /\ \A c \in DOMAIN candidates :
          /\ candidates'[c] = candidates[c]
          /\ candidates[c].session_token # candidates'[lastCandidateId'].session_token
    /\ responses' = responses
    /\ \A r \in responses' : r.candidate_id # lastCandidateId'

\* C32 as stated: when duplicate prevention is off and every session of
\* the address under the exam is submitted, a start call for the exam and
\* the address creates a new session with a fresh token, total_marks equal
\* to the current sum of the exam's question marks and no responses, and
\* leaves every earlier session and every response unchanged.
C32_RestartAlwaysCreates ==
    [][\A client \in Clients, email \in SameKeyEmails, code \in CodeInputs :
          \A e \in DOMAIN exams :
             ( /\ res'.route = "start"
               /\ RestartAllowed(e, email, code)
               /\ Start(client, email, code) )
             => CreatedSession(e)
      ]_vars

\* C32 amended: the same, for an exam that is active when the call is
\* handled.
C32_RestartCreatesWhenActive ==
    [][\A client \in Clients, email \in SameKeyEmails, code \in CodeInputs :
          \A e \in DOMAIN exams :
             ( /\ res'.route = "start"
               /\ RestartAllowed(e, email, code)
               /\ exams[e].is_active = 1
               /\ Start(client, email, code) )
             => CreatedSession(e)
      ]_vars

\* a second session of the address was just created beside a submitted one
\* that has a response, after a question was added: the new row has the
\* larger total_marks, another token and no response
C32_Witness ==
    /\ res.route = "start"
    /\ res.status = 200
    /\ sql = "INSERT INTO candidates"
    /\ \E c1, c2 \in DOMAIN candidates :
          /\ candidates[c1].is_submitted = 1
          /\ candidates[c2].is_submitted = 0
          /\ candidates[c1].email = candidates[c2].email
          /\ candidates[c1].exam_id = candidates[c2].exam_id
          /\ candidates[c1].session_token # candidates[c2].session_token
          /\ res.sessionToken = candidates[c2].session_token
          /\ ResponsesOf(c1) # {}
          /\ ResponsesOf(c2) = {}
          /\ candidates[c2].total_marks = CurrentTotal(candidates[c2].exam_id)

\* the unsubmitted sessions of an exam id and a lower-case address
UnsubmittedOf(e, key) ==
    {c \in DOMAIN candidates : /\ candidates[c].exam_id = e
                               /\ ToLowerCase(candidates[c].email) = key
                               /\ candidates[c].is_submitted = 0}

\* C33: with the requests handled one at a time, every exam and lower-case
\* address has at most one unsubmitted session, whatever start and submit
\* calls and operator changes of prevent_duplicate_attempts and is_active
\* came before.
C33_OneUnsubmittedPerKey ==
    \A e \in 1..MaxExams, email \in SameKeyEmails :
       Cardinality(UnsubmittedOf(e, ToLowerCase(email))) <= 1

\* a second attempt is in progress beside a submitted one of the same key,
\* with duplicate prevention switched on and the exam deactivated since
C33_Witness ==
    \E e \in DOMAIN exams :
       /\ exams[e].prevent_duplicate_attempts = 1
       /\ exams[e].is_active = 0
       /\ Cardinality(UnsubmittedOf(e, "a@x.io")) = 1
       /\ \E c \in DOMAIN candidates :
             /\ candidates[c].exam_id = e
             /\ candidates[c].email = "a@x.io"
             /\ candidates[c].is_submitted = 1

\* C34: every submitted session has 0 <= score <= total_marks, also when
\* the operator added, edited or deleted questions while the session was in
\* progress.
C34_ScoreWithinTotal ==
    \A c \in DOMAIN candidates :
       candidates[c].is_submitted = 1
       => /\ candidates[c].score # None
          /\ 0 <= candidates[c].score[1]
          /\ candidates[c].score[1] <= candidates[c].total_marks

ExpiredSession(c) ==
    /\ c \in DOMAIN candidates
    /\ candidates[c].is_submitted = 0
    /\ candidates[c].exam_id \in DOMAIN exams
    /\ RemainingSeconds(candidates[c], exams[candidates[c].exam_id]) = 0

\* the submitted sessions of the exam and address of session c
SubmittedOfKey(c) ==
    {d \in DOMAIN candidates : /\ candidates[d].exam_id = candidates[c].exam_id
                               /\ candidates[d].email = candidates[c].email
                               /\ candidates[d].is_submitted = 1}

\* the clock alone changes no table and no cookie, a session becomes
\* submitted only in a submit call that replies 200, the leaderboard lists
\* the submitted sessions only, and an address without a submitted session
\* is never refused as a duplicate attempt
TimeChangesNothing ==
    /\ now' # now => UNCHANGED <<tables, session>>
    /\ \A c \in DOMAIN candidates :
          ( /\ candidates[c].is_submitted = 0
            /\ c \in DOMAIN candidates'
            /\ candidates'[c].is_submitted = 1 )
          => res'.route = "submit" /\ res'.status = 200
    /\ ( /\ res'.route = "leaderboard" /\ res'.status = 200
         /\ Leaderboard("q1") )
       => Len(res'.leaderboard) =
             Cardinality({c \in DOMAIN candidates :
                             /\ candidates[c].is_submitted = 1
                             /\ exams[candidates[c].exam_id].exam_code = "Q1"})
    /\ \A c \in DOMAIN candidates :
          ( /\ ExpiredSession(c)
            /\ SubmittedOfKey(c) = {}
            /\ res'.route = "start"
            /\ Start(1, candidates[c].email, "q1") )
          => res'.status # 400

\* the start call returns session c as it was: its token and start_time in
\* the reply, the client's cookie on it, and no table changed
ReturnsSession(c) ==
    /\ res'.status = 200
    /\ res'.sessionToken = candidates[c].session_token
    /\ res'.startTime = candidates[c].start_time
    /\ session'[1] = c
    /\ UNCHANGED tables

\* C36 as stated: the passage of time alone never changes stored state; a
\* session becomes submitted only through a successful submit call, so an
\* unsubmitted session whose time has run out stays unsubmitted, is
\* returned with the same token and start_time by a later start for its
\* exam and address, never appears on the leaderboard, and is not treated
\* as a prior attempt by the duplicate check.
C36_ExpiredSessionAlwaysResumed ==
    [][/\ TimeChangesNothing
       /\ \A c \in DOMAIN candidates :
             ( /\ ExpiredSession(c)
               /\ exams[candidates[c].exam_id].exam_code = "Q1"
               /\ res'.route = "start"
               /\ Start(1, candidates[c].email, "q1") )
             => ReturnsSession(c)
      ]_vars

\* C36 amended: the same, the later start being made while the exam is
\* active and the duplicate check does not apply (prevent_duplicate_attempts
\* is 0 or the exam and address have no submitted session).
C36_ExpiredSessionResumedWhenStartAllowed ==
    [][/\ TimeChangesNothing
       /\ \A c \in DOMAIN candidates :
             ( /\ ExpiredSession(c)
               /\ exams[candidates[c].exam_id].exam_code = "Q1"
               /\ exams[candidates[c].exam_id].is_active = 1
               /\ \/ exams[candidates[c].exam_id].prevent_duplicate_attempts = 0
                  \/ SubmittedOfKey(c) = {}
               /\ res'.route = "start"
               /\ Start(1, candidates[c].email, "q1") )
             => ReturnsSession(c)
      ]_vars

\* at minute 1 a start has just returned the session begun at minute 0 of
\* the one-minute exam, still unsubmitted, while the exam prevents duplicate
\* attempts
C36_Witness ==
    /\ now = 1
    /\ res.route = "start"
    /\ res.status = 200
    /\ \E c \in DOMAIN candidates :
          /\ ExpiredSession(c)
          /\ candidates[c].start_time = 0
          /\ exams[candidates[c].exam_id].prevent_duplicate_attempts = 1
          /\ res.sessionToken = candidates[c].session_token
          /\ res.startTime = 0
          /\ session[1] = c

\* the client holds an unsubmitted session of an exam that is not active
InProgressDeactivated(client) ==
    /\ session[client] \in DOMAIN candidates
    /\ candidates[session[client]].is_submitted = 0
    /\ candidates[session[client]].exam_id \in DOMAIN exams
    /\ exams[candidates[session[client]].exam_id].is_active = 0

\* C37: deactivating an exam after a session has started does not block the
\* session. For an unsubmitted session of an exam with is_active = 0, an
\* answer naming a question of the exam replies 200 and stores the
\* selection with the marks the grading rule gives it, a submit replies 200
\* and stores the clamped sum of the session's marks, and a start for the
\* exam is refused with 404 and changes nothing.
C37_DeactivationKeepsSession ==
    [][\A client \in Clients :
          InProgressDeactivated(client) =>
             LET c == session[client]
                 e == candidates[c].exam_id
             IN /\ \A q \in QuestionsOfExam(e), opt \in {"a", "B"} :
                      (res'.route = "answer" /\ Answer(client, q, opt))
                      => /\ res'.status = 200
                         /\ \E r \in responses' :
                               /\ r.candidate_id = c
                               /\ r.question_id = q
                               /\ r.selected_option = opt
                               /\ r.marks_obtained =
                                    ClaimedMarks(opt, questions[q],
                                                 exams[e].negative_marking)
                /\ (res'.route = "submit" /\ Submit(client))
                   => /\ res'.status = 200
                      /\ candidates'[c].is_submitted = 1
                      /\ candidates'[c].score = <<ClampedSum(c)>>
                /\ (res'.route = "start" /\ Start(client, candidates[c].email, "q1"))
                   => /\ res'.status = 404
                      /\ UNCHANGED <<tables, session>>
      ]_vars

\* a session of a deactivated exam has been submitted with a right answer
\* recorded, and scored its marks
C37_Witness ==
    /\ res.route = "submit"
    /\ res.status = 200
    /\ \E c \in DOMAIN candidates :
          /\ candidates[c].is_submitted = 1
          /\ candidates[c].score = <<2>>
          /\ exams[candidates[c].exam_id].is_active = 0
          /\ \E r \in ResponsesOf(c) : r.marks_obtained = 2

\* C38: the operator's edits of a question (correct_option, marks) and of
\* an exam (negative_marking) change no response row, and a submit stores
\* the clamped sum of the marks the rows hold, whatever the question and
\* the exam say now.
C38_EditsLeaveResponses ==
    [][/\ ( /\ res'.route = "api"
            /\ \/ \E id \in QuestionIds : UpdateQuestion(id, "B", 1)
               \/ UpdateExam(1, "q1", 30, 1, "public", 1, 1) )
          => responses' = responses
       /\ \A client \in Clients :
             ( /\ res'.route = "submit"
               /\ res'.status = 200
               /\ Submit(client) )
             => candidates'[session[client]].score = <<ClampedSum(session[client])>>
      ]_vars

\* a session was submitted with score 2, the marks its row holds for an
\* answer that was right when given, after the question's correct option
\* and marks were edited so that grading it now would give -1 or 0
C38_Witness ==
    /\ res.route = "submit"
    /\ res.status = 200
    /\ \E c \in DOMAIN candidates, r \in responses :
          /\ candidates[c].is_submitted = 1
          /\ candidates[c].score = <<2>>
          /\ r.candidate_id = c
          /\ r.selected_option = "a"
          /\ r.marks_obtained = 2
          /\ r.question_id \in DOMAIN questions
          /\ questions[r.question_id].correct_option = "B"
          /\ questions[r.question_id].marks = 1
          /\ exams[candidates[c].exam_id].negative_marking = 1
          /\ ScoreOfSelections(c) # 2

\* the number of attempts recorded for the address less than 15 minutes ago
RecordedWithinLockout(ip) ==
    IF ip \in DOMAIN loginAttempts
    THEN Cardinality({i \in 1..Len(loginAttempts[ip]) :
                         DateNow - loginAttempts[ip][i] < 15 * 60 * 1000})
    ELSE 0

\* a login request of an address is answered 429 exactly when at least 5
\* attempts are recorded for it within the last 15 minutes; then no
\* credential check is made and no attempt recorded; a failed check is
\* recorded with the current time, a successful one removes the address's
\* record, and the other addresses' records and checks stay as they are
LimiterRule ==
    \A ip \in LoginIPs, username \in UsernameInputs, password \in PasswordInputs :
       ( /\ res'.route = "login"
         /\ Login(ip, username, password) )
       => /\ (res'.status = 429) <=> (RecordedWithinLockout(ip) >= 5)
          /\ res'.status = 429
             => /\ credentialChecks' = credentialChecks
                /\ ip \in DOMAIN loginAttempts'
                /\ Len(loginAttempts'[ip]) <= Len(loginAttempts[ip])
                /\ \A i \in 1..Len(loginAttempts'[ip]) :
                      \E j \in 1..Len(loginAttempts[ip]) :
                         loginAttempts[ip][j] = loginAttempts'[ip][i]
          /\ res'.status = 401
             => /\ ~CredentialsMatch(username, password)
                /\ ip \in DOMAIN loginAttempts'
                /\ loginAttempts'[ip][Len(loginAttempts'[ip])] = DateNow
                /\ Len(loginAttempts'[ip]) = RecordedWithinLockout(ip) + 1
          /\ res'.status = 200
             => /\ CredentialsMatch(username, password)
                /\ ip \notin DOMAIN loginAttempts'
          /\ res'.status \in {200, 401, 429}
          /\ \A other \in LoginIPs \ {ip} :
                /\ credentialChecks'[other] = credentialChecks[other]
                /\ other \in DOMAIN loginAttempts' <=> other \in DOMAIN loginAttempts
                /\ other \in DOMAIN loginAttempts
                   => loginAttempts'[other] = loginAttempts[other]

\* the failed checks of the address among its first k checks that were
\* made less than 15 minutes before the k-th
FailedWithinWindow(checks, k) ==
    {i \in 1..k : /\ ~checks[i].ok
                  /\ checks[k].at - checks[i].at < 15 * 60 * 1000}

\* those of them made after the last successful check before the k-th
FailedSinceSuccess(checks, k) ==
    {i \in FailedWithinWindow(checks, k) : \A j \in i..k : ~checks[j].ok}

\* C39 as stated: the limiter rule, and at most 5 failed credential checks
\* of an address within any 15-minute window.
C39_FiveFailuresPerWindow ==
    [][/\ LimiterRule
       /\ \A ip \in LoginIPs :
             \A k \in 1..Len(credentialChecks'[ip]) :
                Cardinality(FailedWithinWindow(credentialChecks'[ip], k)) <= 5
      ]_vars

\* C39 amended: the limiter rule, and at most 5 failed credential checks of
\* an address within any 15-minute window in which no login from the
\* address succeeds.
C39_FiveFailuresSinceSuccess ==
    [][/\ LimiterRule
       /\ \A ip \in LoginIPs :
             \A k \in 1..Len(credentialChecks'[ip]) :
                Cardinality(FailedSinceSuccess(credentialChecks'[ip], k)) <= 5
      ]_vars

\* at minute 10 an address is refused with 429: it logged in and then
\* failed five times within the last ten minutes, while the other address
\* has one failed attempt on record
C39_Witness ==
    /\ res.route = "login"
    /\ res.status = 429
    /\ now = 10
    /\ \E ip \in LoginIPs, other \in LoginIPs :
          /\ other # ip
          /\ Len(credentialChecks[ip]) = 6
          /\ credentialChecks[ip][1].ok
          /\ \A i \in 2..6 : ~credentialChecks[ip][i].ok
          /\ ip \in DOMAIN loginAttempts
          /\ Len(loginAttempts[ip]) = 5
          /\ other \in DOMAIN loginAttempts
          /\ Len(loginAttempts[other]) = 1

====
